---- MODULE Spec2Model ----
(***************************************************************************)
(* A model of the MoonShot interpreter.  Spec runs parsed programs through  *)
(* the type checker and the tree-walking evaluator; SpecEnrich drives the   *)
(* error-enrichment helper and SpecValues the persistent value operations.  *)
(* The specifications share the variables; those a specification does not   *)
(* use stay at their idle values.                                           *)
(***************************************************************************)
EXTENDS Integers, Sequences, FiniteSets, TLC

VARIABLES
    program,    \* the parsed Program handed to Check and to evalProgram
    pc,         \* evaluator: index of the next top-level statement
    st,         \* evaluator: environments, Mutable cells, registries, ghost logs
    result,     \* evaluator: evalProgram's local `result`
    phase,      \* which subsystem runs and whether it has returned
    err,        \* enrichment: the *ErrorValue the calls share
    hist,       \* enrichment: ghost list of the EnrichError calls made
    heap,       \* values: the allocated slices / maps, by address
    made,       \* values: ghost record of each literal and operation made
    binds,      \* values: name -> address of the value it is bound to
    tc,         \* checker: the TypeChecker, after Check once Run has called it
    parser,     \* parser: the token text, the Parser's position and errors, the Program so far
    lexer,      \* lexer: the Lexer and the tokens NextToken has returned
    call        \* one call of a function of the runtime: its name, arguments and result

vars == <<program, pc, st, result, phase, err, hist, heap, made, binds, tc, parser, lexer, call>>

(***************************************************************************)
(* Bounds of the model.                                                    *)
(***************************************************************************)
MaxBlockLen == 2      \* statements per generated block
MaxChain == 3         \* .then/.map calls per generated chain
MaxAssign == 2        \* `==` assignments per generated program
MaxEnrich == 3        \* EnrichError calls per run
MaxOps == 3           \* value operations per run
MaxBodyLen == 2       \* statements per generated checker function body
MaxFrags == 3         \* pieces of text per generated parser input
MaxAnnotation == 4    \* tokens per generated type annotation
MaxMapBody == 4       \* tokens per generated map literal body
MaxMutable == 2       \* statements on Mutable values per generated program
MaxRangeArgs == 3     \* arguments per generated call of range
MaxInt == 3           \* largest absolute value of a generated integer argument
MaxRange == 4         \* elements a generated loop goes over
MaxLoopBody == 3      \* statements per generated loop body
MaxImports == 2       \* statements per generated importing program
MaxImportDepth == 3   \* nested module evaluations before the Go stack is taken as exhausted
MaxInput == 4         \* characters per generated lexer input
MaxEofCalls == 2      \* NextToken calls made at the end of the input

(***************************************************************************)
(* Runtime values (value.go).  A record's field `t` is the Go type; the    *)
(* other fields are the Go struct's fields.                                *)
(***************************************************************************)
IntV(n) == [t |-> "Integer", n |-> n]
StrV(x) == [t |-> "String", str |-> x]
BoolV(b) == [t |-> "Boolean", b |-> b]
NullV == [t |-> "Null"]
ListV(es) == [t |-> "List", es |-> es]
FunV(name, params, body, env, isLambda) ==
    [t |-> "Function", name |-> name, params |-> params, body |-> body,
     env |-> env, isLambda |-> isLambda]
BuiltinV(name) == [t |-> "Builtin", name |-> name]
MapV(pairs) == [t |-> "Map", pairs |-> pairs]
ModuleV(name, exports) == [t |-> "Module", name |-> name, exports |-> exports]
StructDefV(name, fields) == [t |-> "StructDef", name |-> name, fields |-> fields]
StructV(def, fields) == [t |-> "Struct", def |-> def, fields |-> fields]
NoErr == [method |-> "", input |-> "", message |-> "", set |-> FALSE]
ErrRec(method, input, message) ==
    [method |-> method, input |-> input, message |-> message, set |-> TRUE]
OkV(v) == [t |-> "Result", isOk |-> TRUE, val |-> v, err |-> NoErr]
FailV(e) == [t |-> "Result", isOk |-> FALSE, val |-> NullV, err |-> e]
MutV(ref) == [t |-> "Mutable", ref |-> ref]
OptionV(isSome, val) == [t |-> "Option", isSome |-> isSome, val |-> val]
ErrV(method, input, message) ==
    [t |-> "Error", method |-> method, input |-> input, message |-> message]
RetV(v) == [t |-> "Return", val |-> v]
BreakV == [t |-> "Break"]
ContV == [t |-> "Continue"]
\* Go's nil Value, returned by the evalXxxMethod functions for "no such method"
NilV == [t |-> "nil"]

\* Value.Type()
TypeOf(v) == IF v.t = "Struct" THEN v.def ELSE v.t

\* isError
isError(v) == v.t = "Error"

\* UnwrapValue: one level of Mutable
UnwrapValue(v, s) == IF v.t = "Mutable" THEN s.cells[v.ref] ELSE v

\* The field and key names of the model in sort.Strings order
NameOrder == <<"age", "email", "name">>

\* ErrorValue.String()
ErrString(e) ==
    IF e.method # ""
    THEN "Error in " \o e.method \o "\nInput: " \o e.input \o "\nReason: " \o e.message
    ELSE e.message

RECURSIVE String(_, _)
RECURSIVE JoinFields(_, _, _, _)
JoinFields(fields, i, first, s) ==
    IF i > Len(NameOrder) THEN ""
    ELSE IF NameOrder[i] \in DOMAIN fields
         THEN (IF first THEN "" ELSE ", ")
              \o NameOrder[i] \o ": " \o String(fields[NameOrder[i]], s)
              \o JoinFields(fields, i + 1, FALSE, s)
         ELSE JoinFields(fields, i + 1, first, s)

RECURSIVE JoinElems(_, _, _)
JoinElems(es, i, s) ==
    IF i > Len(es) THEN ""
    ELSE (IF i = 1 THEN "" ELSE ", ") \o String(es[i], s) \o JoinElems(es, i + 1, s)

\* Value.String()
String(v, s) ==
    CASE v.t = "Integer" -> ToString(v.n)
      [] v.t = "String" -> v.str
      [] v.t = "Boolean" -> IF v.b THEN "true" ELSE "false"
      [] v.t = "Null" -> "null"
      [] v.t = "List" -> "[" \o JoinElems(v.es, 1, s) \o "]"
      [] v.t = "Function" -> IF v.name # "" THEN "<function " \o v.name \o ">" ELSE "<lambda>"
      [] v.t = "Builtin" -> "<builtin " \o v.name \o ">"
      [] v.t = "StructDef" -> "<struct " \o v.name \o ">"
      [] v.t = "Struct" -> v.def \o "{" \o JoinFields(v.fields, 1, TRUE, s) \o "}"
      [] v.t = "Result" ->
            IF v.isOk THEN "Ok(" \o String(v.val, s) \o ")"
            ELSE "Error(" \o ErrString(v.err) \o ")"
      [] v.t = "Option" -> IF v.isSome THEN "Some(" \o String(v.val, s) \o ")" ELSE "None"
      [] v.t = "Mutable" -> String(s.cells[v.ref], s)
      [] v.t = "Error" -> ErrString(v)
      [] v.t = "Return" -> String(v.val, s)
      [] v.t = "Break" -> "break"
      [] v.t = "Continue" -> "continue"

\* IsTruthy
RECURSIVE IsTruthy(_, _)
IsTruthy(v, s) ==
    CASE v.t = "Boolean" -> v.b
      [] v.t = "Null" -> FALSE
      [] v.t = "Integer" -> v.n # 0
      [] v.t = "String" -> v.str # ""
      [] v.t = "List" -> Len(v.es) > 0
      [] v.t = "Mutable" -> IsTruthy(s.cells[v.ref], s)
      [] OTHER -> TRUE

\* valuesEqual
valuesEqual(a0, b0, s) ==
    LET a == UnwrapValue(a0, s)
        b == UnwrapValue(b0, s)
    IN CASE a.t = "Integer" -> b.t = "Integer" /\ a.n = b.n
         [] a.t = "String" -> b.t = "String" /\ a.str = b.str
         [] a.t = "Boolean" -> b.t = "Boolean" /\ a.b = b.b
         [] a.t = "Null" -> b.t = "Null"
         [] OTHER -> FALSE

(***************************************************************************)
(* Environments (Environment): a heap of stores linked by parent index,    *)
(* 0 for no parent.                                                        *)
(***************************************************************************)
NewEnvironment == [store |-> <<>>, parent |-> 0]

\* NewEnclosedEnvironment: the evaluator state with one more environment
NewEnclosedEnvironment(s, parent) ==
    [s EXCEPT !.envs = Append(@, [store |-> <<>>, parent |-> parent])]

\* the index NewEnclosedEnvironment has just allocated
LastEnv(s) == Len(s.envs)

\* Environment.Get
RECURSIVE EnvGet(_, _, _)
EnvGet(s, e, name) ==
    IF name \in DOMAIN s.envs[e].store
    THEN [ok |-> TRUE, val |-> s.envs[e].store[name]]
    ELSE IF s.envs[e].parent # 0
         THEN EnvGet(s, s.envs[e].parent, name)
         ELSE [ok |-> FALSE, val |-> NullV]

\* Environment.Set
EnvSet(s, e, name, val) ==
    LET old == s.envs[e].store
        new == [n \in (DOMAIN old) \cup {name} |-> IF n = name THEN val ELSE old[n]]
    IN [s EXCEPT !.envs[e].store = new]

(***************************************************************************)
(* AST nodes (ast.go).  Field `k` is the Go node type.                     *)
(***************************************************************************)
NoNode == [k |-> "nil"]
\* TypeAnnotation: a name and its type parameters
Ann(name, typeParams) == [k |-> "TypeAnnotation", name |-> name, typeParams |-> typeParams]
IntLit(n) == [k |-> "IntegerLiteral", n |-> n]
StrLit(x) == [k |-> "StringLiteral", str |-> x]
BoolLit(b) == [k |-> "BooleanLiteral", b |-> b]
Id(name) == [k |-> "Identifier", name |-> name]
Infix(op, l, r) == [k |-> "InfixExpression", op |-> op, left |-> l, right |-> r]
Assign(name, value) == [k |-> "AssignmentExpression", name |-> name, value |-> value]
Block(stmts) == [k |-> "BlockStatement", stmts |-> stmts]
If(cond, cons) ==
    [k |-> "IfExpression", cond |-> cond, cons |-> Block(cons), alt |-> NoNode]
IfElse(cond, cons, alt) ==
    [k |-> "IfExpression", cond |-> cond, cons |-> Block(cons), alt |-> Block(alt)]
Lambda(params, body) == [k |-> "FunctionLiteral", params |-> params, body |-> body]
Call(fn, args) == [k |-> "CallExpression", fn |-> fn, args |-> args]
Member(object, member) == [k |-> "MemberExpression", object |-> object, member |-> member]
ListLit(elems) == [k |-> "ListLiteral", elems |-> elems]
StructLit(name, fields) == [k |-> "StructLiteral", name |-> name, fields |-> fields]
WithE(object, updates) == [k |-> "WithExpression", object |-> object, updates |-> updates]
ResultE(isOk, value) == [k |-> "ResultExpression", isOk |-> isOk, value |-> value]
OptionE(isSome, value) == [k |-> "OptionExpression", isSome |-> isSome, value |-> value]
Match(value, cases) == [k |-> "MatchExpression", value |-> value, cases |-> cases]
\* the MatchCase parseMatchCase builds for `pattern => { body }`: BindingVar is
\* the identifier inside Some(..), Ok(..) or Error(..), and nil for any other
\* pattern
MatchCase(pattern, body) ==
    [pattern |-> pattern,
     bindingVar |->
        CASE pattern.k = "OptionExpression" ->
                IF pattern.isSome /\ pattern.value.k = "Identifier" THEN pattern.value
                ELSE NoNode
          [] pattern.k = "ResultExpression" ->
                IF pattern.value.k = "Identifier" THEN pattern.value ELSE NoNode
          [] OTHER -> NoNode,
     body |-> Block(body)]
MutableE(value) == [k |-> "MutableExpression", value |-> value, typeHint |-> NoNode]
DefT(name, typeHint, value) ==
    [k |-> "DefStatement", name |-> name, typeHint |-> typeHint, value |-> value]
Def(name, value) == DefT(name, NoNode, value)
Ret(value) == [k |-> "ReturnStatement", value |-> value]
ExprS(e) == [k |-> "ExpressionStatement", expr |-> e]
\* params are the parameter names, hints their TypeHints
FunT(name, params, hints, returnType, body) ==
    [k |-> "FunctionStatement", name |-> name, params |-> params, hints |-> hints,
     returnType |-> returnType, body |-> Block(body)]
Fun(name, params, body) == FunT(name, params, [i \in 1..Len(params) |-> NoNode], NoNode, body)
For(var, iter, body) ==
    [k |-> "ForStatement", var |-> var, iter |-> iter, body |-> Block(body)]
WhileS(cond, body) == [k |-> "WhileStatement", cond |-> cond, body |-> body]
\* MapLiteral: pairs are the <<key, value>> nodes, in the order of the text
MapLitOf(pairs) == [k |-> "MapLiteral", pairs |-> pairs]
MapLit == MapLitOf(<<>>)
Prefix(op, right) == [k |-> "PrefixExpression", op |-> op, right |-> right]
Brk == [k |-> "BreakStatement"]
Import(path) == [k |-> "ImportStatement", path |-> path]
Cont == [k |-> "ContinueStatement"]
\* fields are the field names, hints their TypeHints
StructS(name, fields, hints) ==
    [k |-> "StructStatement", name |-> name, fields |-> fields, hints |-> hints]
Extend(typeName, methods) ==
    [k |-> "ExtendStatement", typeName |-> typeName, methods |-> methods]

(***************************************************************************)
(* The evaluator (Evaluator.Eval and its helpers).  Every function takes   *)
(* the evaluator state s and returns [v |-> the Value, s |-> the state     *)
(* after the call].  s.log, s.calls, s.sends, s.chain, s.assigns and       *)
(* s.nact are ghost fields: the result of every statement a block or the   *)
(* program evaluated, every function application, every method call that   *)
(* reached the extension registry, every Result method call, every `==`    *)
(* assignment, and the number of block activations.                        *)
(***************************************************************************)
R(v, s) == [v |-> v, s |-> s]

\* a local variable: Body applied to the value v, which is computed once and
\* before Body is entered (x ranges over the one value of v)
With(v, Body(_)) == CHOOSE y \in {Body(x) : x \in {v}} : TRUE

\* the map m with m[k] = v
Put(m, k, v) == [n \in (DOMAIN m) \cup {k} |-> IF n = k THEN v ELSE m[n]]

Logged(s, act, idx, v) ==
    [s EXCEPT !.log = Append(@, [kind |-> "stmt", act |-> act, idx |-> idx, v |-> v])]
LoggedExit(s, act, v) ==
    [s EXCEPT !.log = Append(@, [kind |-> "exit", act |-> act, idx |-> 0, v |-> v])]
LoggedCall(s, kind, fn, recv, args, raw, v) ==
    [s EXCEPT !.calls = Append(@, [kind |-> kind, fn |-> fn, recv |-> recv, args |-> args,
                                   raw |-> raw, v |-> v])]
LoggedSend(s, recv, method, dispatched, v) ==
    [s EXCEPT !.sends = Append(@, [recv |-> recv, method |-> method,
                                   dispatched |-> dispatched, v |-> v])]
LoggedChain(s, r, method, args, calls0, v) ==
    [s EXCEPT !.chain = Append(@, [r |-> r, method |-> method, args |-> args,
                                   calls0 |-> calls0, calls1 |-> Len(s.calls), v |-> v])]
LoggedAssign(s, before, name, e, existing, v) ==
    [s EXCEPT !.assigns = Append(@, [name |-> name, val |-> e.v, existing |-> existing,
                                     cellsB |-> before.cells, envsB |-> before.envs,
                                     cells0 |-> e.s.cells, envs0 |-> e.s.envs,
                                     cells1 |-> s.cells, envs1 |-> s.envs, v |-> v])]

\* Go's integer division and remainder truncate toward zero
Abs(n) == IF n < 0 THEN -n ELSE n
GoDiv(a, b) == IF (a < 0) = (b < 0) THEN Abs(a) \div Abs(b) ELSE -(Abs(a) \div Abs(b))
GoMod(a, b) == a - b * GoDiv(a, b)

\* evalIntegerInfixExpression
evalIntegerInfixExpression(op, left, right) ==
    CASE op = "+" -> IntV(left + right)
      [] op = "-" -> IntV(left - right)
      [] op = "*" -> IntV(left * right)
      [] op = "/" -> IF right = 0 THEN ErrV("", "", "division by zero")
                     ELSE IntV(GoDiv(left, right))
      [] op = "%" -> IF right = 0 THEN ErrV("", "", "division by zero")
                     ELSE IntV(GoMod(left, right))
      [] op = ">" -> BoolV(left > right)
      [] op = "<" -> BoolV(left < right)
      [] op = ">=" -> BoolV(left >= right)
      [] op = "<=" -> BoolV(left <= right)
      [] OTHER -> ErrV("", "", "unknown operator: Integer " \o op \o " Integer")

\* evalStringInfixExpression; the ordering operators on strings are not modelled
evalStringInfixExpression(op, left, right) ==
    CASE op = "+" -> StrV(left \o right)
      [] op \notin {"+", ">", "<", ">=", "<="} ->
            ErrV("", "", "unknown operator: String " \o op \o " String")

\* unwrapReturnValue
unwrapReturnValue(v) == IF v.t = "Return" THEN v.val ELSE v

\* extendFunctionEnv: the state with the call's environment allocated last
RECURSIVE BindParams(_, _, _, _, _)
BindParams(s, e, params, args, i) ==
    IF i > Len(params) THEN s
    ELSE BindParams(IF i <= Len(args) THEN EnvSet(s, e, params[i], args[i]) ELSE s,
                    e, params, args, i + 1)
\* an extendFunctionEnv that encloses the global environment
extendFunctionEnv_Global(s, fn, args) ==
    With(NewEnclosedEnvironment(s, 1),
         LAMBDA s1 : BindParams(s1, LastEnv(s1), fn.params, args, 1))

extendFunctionEnv(s, fn, args) ==
    With(NewEnclosedEnvironment(s, fn.env),
         LAMBDA s1 : BindParams(s1, LastEnv(s1), fn.params, args, 1))

\* ghost: the environment extendFunctionEnv has just returned, as it is when
\* the body starts
Framed(s, fn, args) ==
    [s EXCEPT !.frames = Append(@, [env |-> LastEnv(s),
                                    parent |-> s.envs[LastEnv(s)].parent,
                                    store |-> s.envs[LastEnv(s)].store,
                                    fn |-> fn, args |-> args])]

RECURSIVE Eval(_, _, _)
RECURSIVE evalBlockFrom(_, _, _, _, _, _)
RECURSIVE evalForFrom(_, _, _, _, _)
RECURSIVE evalExpressions(_, _, _, _, _)
RECURSIVE applyFunction(_, _, _)
RECURSIVE evalMethodCall(_, _, _, _)
RECURSIVE evalResultMethod(_, _, _, _)

\* evalExpressions: [vs |-> the values, s |-> the state]
evalExpressions(exprs, env, s, i, acc) ==
    IF i > Len(exprs) THEN [vs |-> acc, s |-> s]
    ELSE With(Eval(exprs[i], env, s),
              LAMBDA r : evalExpressions(exprs, env, r.s, i + 1, Append(acc, r.v)))

\* the loop of evalBlockStatement from statement i on, `last` being `result`
evalBlockFrom(stmts, i, env, s, act, last) ==
    IF i > Len(stmts) THEN R(last, LoggedExit(s, act, last))
    ELSE With(Eval(stmts[i], env, s), LAMBDA r :
         With(Logged(r.s, act, i, r.v), LAMBDA s1 :
             IF r.v.t \in {"Return", "Break", "Continue"}
             THEN R(r.v, LoggedExit(s1, act, r.v))
             ELSE evalBlockFrom(stmts, i + 1, env, s1, act, r.v)))

\* evalBlockStatement
evalBlockStatement(block, env, s) ==
    evalBlockFrom(block.stmts, 1, env, [s EXCEPT !.nact = @ + 1], s.nact + 1, NullV)

\* a loop of evalForStatement that goes on to the next element after a Break
evalForFrom_BreakGoesOn(stmt, es, i, env, s) ==
    IF i > Len(es) THEN R(NullV, s)
    ELSE With(NewEnclosedEnvironment(s, env), LAMBDA s1 :
         With(Eval(stmt.body, LastEnv(s1), EnvSet(s1, LastEnv(s1), stmt.var, es[i])),
              LAMBDA r :
                  CASE r.v.t \in {"Return", "Error"} -> r
                    [] OTHER -> evalForFrom(stmt, es, i + 1, env, r.s)))

\* the loop of evalForStatement from element i on
evalForFrom(stmt, es, i, env, s) ==
    IF i > Len(es) THEN R(NullV, s)
    ELSE With(NewEnclosedEnvironment(s, env), LAMBDA s1 :
         With(Eval(stmt.body, LastEnv(s1), EnvSet(s1, LastEnv(s1), stmt.var, es[i])),
              LAMBDA r :
                  CASE r.v.t = "Break" -> R(NullV, r.s)
                    [] r.v.t \in {"Return", "Error"} -> r
                    [] OTHER -> evalForFrom(stmt, es, i + 1, env, r.s)))

\* evalForStatement
evalForStatement(stmt, env, s) ==
    With(Eval(stmt.iter, env, s), LAMBDA it :
    With(UnwrapValue(it.v, it.s), LAMBDA list :
        IF isError(it.v) THEN it
        ELSE IF list.t # "List"
             THEN R(ErrV("", "", "cannot iterate over " \o TypeOf(it.v)), it.s)
             ELSE evalForFrom(stmt, list.es, 1, env, it.s)))

\* evalListMethod; of the list methods only length and append are modelled
evalListMethod(list, method, args, s) ==
    CASE method = "length" -> R(IntV(Len(list.es)), s)
      [] method = "append" ->
            IF Len(args) # 1 THEN R(ErrV("", "", "append() requires 1 argument"), s)
            ELSE R(ListV(Append(list.es, args[1])), s)
      [] method \notin {"length", "get", "append", "map", "filter", "reduce", "find",
                        "contains"} -> R(NilV, s)

\* evalStringMethod; of the string methods only length is modelled
evalStringMethod(str, method, args, s) ==
    CASE method = "length" -> R(IntV(Len(str.str)), s)
      [] method \notin {"length", "split", "contains", "trim", "upper", "lower"} ->
            R(NilV, s)

\* evalResultMethod without the `if !r.IsOk { return r }` of then and map
evalResultMethod_NoShortCircuit(r, method, args, s) ==
    IF method \in {"then", "map"}
    THEN IF Len(args) # 1 THEN R(ErrV("", "", method \o "() requires 1 argument"), s)
         ELSE IF args[1].t # "Function"
              THEN R(ErrV("", "", method \o "() argument must be a function"), s)
         ELSE With(applyFunction(args[1], <<r.val>>, s), LAMBDA a :
                  IF method = "then" /\ a.v.t = "Result" THEN a ELSE R(OkV(a.v), a.s))
    ELSE R(NilV, s)

\* evalResultMethod
evalResultMethod(r, method, args, s) ==
    CASE method = "then" ->
            IF Len(args) # 1 THEN R(ErrV("", "", "then() requires 1 argument"), s)
            ELSE IF ~r.isOk THEN R(r, s)
            ELSE IF args[1].t # "Function"
                 THEN R(ErrV("", "", "then() argument must be a function"), s)
            ELSE With(applyFunction(args[1], <<r.val>>, s), LAMBDA a :
                     IF a.v.t = "Result" THEN a ELSE R(OkV(a.v), a.s))
      [] method = "map" ->
            IF Len(args) # 1 THEN R(ErrV("", "", "map() requires 1 argument"), s)
            ELSE IF ~r.isOk THEN R(r, s)
            ELSE IF args[1].t # "Function"
                 THEN R(ErrV("", "", "map() argument must be a function"), s)
            ELSE With(applyFunction(args[1], <<r.val>>, s), LAMBDA a : R(OkV(a.v), a.s))
      [] method = "unwrap" ->
            IF ~r.isOk THEN R(ErrV(r.err.method, r.err.input, r.err.message), s)
            ELSE R(r.val, s)
      [] method = "unwrapOr" ->
            IF Len(args) # 1 THEN R(ErrV("", "", "unwrapOr() requires 1 argument"), s)
            ELSE IF ~r.isOk THEN R(args[1], s)
            ELSE R(r.val, s)
      [] OTHER -> R(NilV, s)

\* evalBuiltinMethod; Map, Option and Module receivers are not modelled
evalBuiltinMethod(obj0, method, args, s) ==
    With(UnwrapValue(obj0, s), LAMBDA obj :
        CASE obj.t = "List" -> evalListMethod(obj, method, args, s)
          [] obj.t = "String" -> evalStringMethod(obj, method, args, s)
          [] obj.t = "Result" ->
                With(evalResultMethod(obj, method, args, s), LAMBDA r :
                    IF r.v = NilV THEN r
                    ELSE R(r.v, LoggedChain(r.s, obj, method, args, Len(s.calls), r.v)))
          [] obj.t = "Module" ->
                With(EnvGet(s, obj.exports, method), LAMBDA g :
                    IF g.ok THEN R(g.val, s) ELSE R(NilV, s))
          [] OTHER -> R(NilV, s))

Builtins == {"print", "println", "range", "str", "type"}

\* a Go run-time panic in a builtin: nothing recovers it and the interpreter
\* process ends
GoPanic(message) == [t |-> "panic", message |-> message]

\* builtinRange from `elements := make(...)` on: make panics on a negative
\* capacity
RangeElements(start, end) ==
    IF end - start < 0 THEN GoPanic("makeslice: cap out of range")
    ELSE ListV([i \in 1..(end - start) |-> IntV(start + i - 1)])

\* builtinRange; the arguments are unwrapped
builtinRange(args) ==
    IF Len(args) < 1 \/ Len(args) > 2
    THEN ErrV("", "", "range() requires 1 or 2 arguments")
    ELSE IF Len(args) = 1
    THEN IF args[1].t # "Integer" THEN ErrV("", "", "range() argument must be an integer")
         ELSE RangeElements(0, args[1].n)
    ELSE IF args[1].t # "Integer" THEN ErrV("", "", "range() start must be an integer")
    ELSE IF args[2].t # "Integer" THEN ErrV("", "", "range() end must be an integer")
    ELSE RangeElements(args[1].n, args[2].n)

\* the BuiltinFunction.Fn of print, println, str and type
applyBuiltin(name, args, s) ==
    CASE name \in {"print", "println"} ->
            R(NullV, [s EXCEPT !.out = Append(@,
                [i \in 1..Len(args) |-> String(UnwrapValue(args[i], s), s)])])
      [] name = "range" ->
            R(builtinRange([i \in 1..Len(args) |-> UnwrapValue(args[i], s)]), s)
      [] name = "str" ->
            IF Len(args) # 1 THEN R(ErrV("", "", "str() requires exactly 1 argument"), s)
            ELSE R(StrV(String(UnwrapValue(args[1], s), s)), s)
      [] name = "type" ->
            IF Len(args) # 1 THEN R(ErrV("", "", "type() requires exactly 1 argument"), s)
            ELSE R(StrV(TypeOf(UnwrapValue(args[1], s))), s)

\* applyFunction
applyFunction(fn, args, s) ==
    CASE fn.t = "Function" ->
            With(extendFunctionEnv([s EXCEPT !.currentFn = fn.name], fn, args), LAMBDA s1 :
            With(Eval(fn.body, LastEnv(s1), Framed(s1, fn, args)), LAMBDA e :
                R(unwrapReturnValue(e.v),
                  LoggedCall([e.s EXCEPT !.currentFn = s.currentFn], "apply", fn, NullV,
                             args, e.v, unwrapReturnValue(e.v)))))
      [] fn.t = "Builtin" -> applyBuiltin(fn.name, args, s)
      [] fn.t = "StructDef" -> R(ErrV("", "", TypeOf(fn) \o " is not callable"), s)
      [] OTHER -> R(ErrV("", "", "not a function: " \o TypeOf(fn)), s)

\* evalMethodCall's extension-method branch: obj is the receiver as evaluated,
\* a the evaluated arguments
callExtension(obj, methodName, a) ==
    IF TypeOf(obj) \in DOMAIN a.s.ext /\ methodName \in DOMAIN a.s.ext[TypeOf(obj)]
    THEN With(a.s.ext[TypeOf(obj)][methodName], LAMBDA method :
         With(NewEnclosedEnvironment(a.s, method.env), LAMBDA s1 :
         With(Eval(method.body, LastEnv(s1),
                   BindParams(EnvSet(s1, LastEnv(s1), "this", obj), LastEnv(s1),
                              method.params, a.vs, 1)),
              LAMBDA e :
                  R(unwrapReturnValue(e.v),
                    LoggedSend(LoggedCall(e.s, "method", method, obj, a.vs, e.v,
                                          unwrapReturnValue(e.v)),
                               obj, methodName, TRUE, unwrapReturnValue(e.v))))))
    ELSE With(ErrV("", "", "undefined method " \o methodName \o " on " \o TypeOf(obj)),
              LAMBDA v : R(v, LoggedSend(a.s, obj, methodName, FALSE, v)))

\* evalMethodCall
evalMethodCall(member, args, env, s) ==
    With(Eval(member.object, env, s), LAMBDA o :
    With(evalExpressions(args, env, o.s, 1, <<>>), LAMBDA a :
    With(evalBuiltinMethod(o.v, member.member, a.vs, a.s), LAMBDA b :
        IF b.v # NilV THEN b ELSE callExtension(o.v, member.member, a))))

\* evalMemberExpression
evalMemberExpression(node, env, s) ==
    With(Eval(node.object, env, s), LAMBDA o :
    With(UnwrapValue(o.v, o.s), LAMBDA u :
        IF isError(o.v) THEN o
        ELSE IF u.t = "Struct"
             THEN IF node.member \in DOMAIN u.fields
                  THEN R(u.fields[node.member], o.s)
                  ELSE R(ErrV("", "", "undefined field " \o node.member \o " on "
                                      \o TypeOf(u)), o.s)
             ELSE IF o.v.t = "Module"
             THEN With(EnvGet(o.s, o.v.exports, node.member), LAMBDA g :
                      IF g.ok THEN R(g.val, o.s)
                      ELSE R(ErrV("", "", "undefined export " \o node.member
                                          \o " in module " \o o.v.name), o.s))
             ELSE R(ErrV("", "", "cannot access member of " \o TypeOf(o.v)), o.s)))

\* evalInfixExpression on the operands' values; Float operands are not modelled
infixOf(op, left, right, s) ==
    CASE op = "and" -> R(BoolV(IsTruthy(left, s) /\ IsTruthy(right, s)), s)
      [] op = "or" -> R(BoolV(IsTruthy(left, s) \/ IsTruthy(right, s)), s)
      [] op = "is" -> R(BoolV(valuesEqual(left, right, s)), s)
      [] OTHER ->
            IF left.t = "Integer" /\ right.t = "Integer"
            THEN R(evalIntegerInfixExpression(op, left.n, right.n), s)
            ELSE IF left.t = "String" /\ right.t = "String"
            THEN R(evalStringInfixExpression(op, left.str, right.str), s)
            ELSE R(ErrV("", "", "type mismatch: " \o TypeOf(left) \o " " \o op
                                \o " " \o TypeOf(right)), s)

\* evalInfixExpression
evalInfixExpression(node, env, s) ==
    With(Eval(node.left, env, s), LAMBDA l :
    With(Eval(node.right, env, l.s), LAMBDA r :
        IF isError(l.v) THEN l
        ELSE IF isError(r.v) THEN r
        ELSE infixOf(node.op, UnwrapValue(l.v, r.s), UnwrapValue(r.v, r.s), r.s)))

\* evalAssignmentExpression that rebinds a name not bound to a Mutable
evalAssignmentExpression_Rebind(node, env, s) ==
    With(Eval(node.value, env, s), LAMBDA r :
    With(EnvGet(r.s, env, node.name), LAMBDA existing :
        IF isError(r.v) THEN r
        ELSE IF ~existing.ok THEN R(ErrV("", "", "undefined: " \o node.name), r.s)
        ELSE IF existing.val.t # "Mutable" THEN R(r.v, EnvSet(r.s, env, node.name, r.v))
        ELSE With(UnwrapValue(r.v, r.s), LAMBDA u :
                 R(u, [r.s EXCEPT !.cells[existing.val.ref] = u]))))

\* evalAssignmentExpression: UnwrapValue(val) is stored into the cell the
\* name resolves to
evalAssignmentExpression(node, env, s) ==
    With(Eval(node.value, env, s), LAMBDA r :
    With(EnvGet(r.s, env, node.name), LAMBDA existing :
        IF isError(r.v) THEN r
        ELSE IF ~existing.ok THEN R(ErrV("", "", "undefined: " \o node.name), r.s)
        ELSE IF existing.val.t # "Mutable"
             THEN R(ErrV("", "", node.name \o " is not mutable"), r.s)
        ELSE With(UnwrapValue(r.v, r.s), LAMBDA u :
                 R(u, [r.s EXCEPT !.cells[existing.val.ref] = u]))))

\* evalResultExpression
evalResultExpression(node, env, s) ==
    With(Eval(node.value, env, s), LAMBDA r :
        IF isError(r.v) THEN r
        ELSE IF node.isOk THEN R(OkV(r.v), r.s)
        ELSE IF r.v.t = "String"
             THEN R(FailV(ErrRec(r.s.currentFn, "", r.v.str)), r.s)
             ELSE R(FailV(ErrRec(r.s.currentFn, "", String(r.v, r.s))), r.s))

\* an evalMutableExpression that wraps the value as it is
evalMutableExpression_Wrap(node, env, s) ==
    With(Eval(node.value, env, s), LAMBDA r :
        IF isError(r.v) THEN r
        ELSE R(MutV(Len(r.s.cells) + 1), [r.s EXCEPT !.cells = Append(@, r.v)]))

\* evalMutableExpression: a new cell that holds UnwrapValue(value)
evalMutableExpression(node, env, s) ==
    With(Eval(node.value, env, s), LAMBDA r :
        IF isError(r.v) THEN r
        ELSE R(MutV(Len(r.s.cells) + 1),
               [r.s EXCEPT !.cells = Append(@, UnwrapValue(r.v, r.s))]))

\* evalOptionExpression
evalOptionExpression(node, env, s) ==
    IF ~node.isSome THEN R(OptionV(FALSE, NullV), s)
    ELSE With(Eval(node.value, env, s), LAMBDA r :
             IF isError(r.v) THEN r ELSE R(OptionV(TRUE, r.v), r.s))

\* matchPattern: [matched, bindings]
NoMatch == [matched |-> FALSE, bindings |-> <<>>]
matchPattern(value, matchCase) ==
    With(matchCase.pattern, LAMBDA pat :
        CASE pat.k = "OptionExpression" ->
                IF value.t # "Option" THEN NoMatch
                ELSE IF pat.isSome # value.isSome THEN NoMatch
                ELSE [matched |-> TRUE,
                      bindings |->
                         IF pat.isSome /\ matchCase.bindingVar.k # "nil"
                         THEN Put(<<>>, matchCase.bindingVar.name, value.val)
                         ELSE <<>>]
          [] pat.k = "ResultExpression" ->
                IF value.t # "Result" THEN NoMatch
                ELSE IF pat.isOk # value.isOk THEN NoMatch
                ELSE [matched |-> TRUE,
                      bindings |->
                         IF matchCase.bindingVar.k # "nil"
                         THEN Put(<<>>, matchCase.bindingVar.name,
                                  IF value.isOk THEN value.val
                                  ELSE ErrV(value.err.method, value.err.input,
                                            value.err.message))
                         ELSE <<>>]
          [] pat.k = "Identifier" ->
                [matched |-> TRUE, bindings |-> Put(<<>>, pat.name, value)]
          [] OTHER -> NoMatch)

\* caseEnv.Set for every binding (matchPattern returns at most one)
SetBindings(s, e, bindings) ==
    IF bindings = <<>> THEN s
    ELSE With(CHOOSE n \in DOMAIN bindings : TRUE, LAMBDA name :
             EnvSet(s, e, name, bindings[name]))

\* the loop of evalMatchExpression over node.Cases
RECURSIVE evalMatchFrom(_, _, _, _, _)
evalMatchFrom(node, value, i, env, s) ==
    IF i > Len(node.cases) THEN R(NullV, s)
    ELSE With(matchPattern(value, node.cases[i]), LAMBDA m :
             IF m.matched
             THEN With(NewEnclosedEnvironment(s, env), LAMBDA s1 :
                      Eval(node.cases[i].body, LastEnv(s1),
                           SetBindings(s1, LastEnv(s1), m.bindings)))
             ELSE evalMatchFrom(node, value, i + 1, env, s))

\* evalMatchExpression
evalMatchExpression(node, env, s) ==
    With(Eval(node.value, env, s), LAMBDA r :
        IF isError(r.v) THEN r ELSE evalMatchFrom(node, r.v, 1, env, r.s))

\* evalStructLiteral's loop over node.Fields, taken in NameOrder (Go ranges over
\* the map in no fixed order; the generated field values have no effects)
RECURSIVE evalFields(_, _, _, _, _)
evalFields(fields, i, env, s, acc) ==
    IF i > Len(NameOrder) THEN [failed |-> FALSE, v |-> NullV, fields |-> acc, s |-> s]
    ELSE IF NameOrder[i] \notin DOMAIN fields THEN evalFields(fields, i + 1, env, s, acc)
    ELSE With(Eval(fields[NameOrder[i]], env, s), LAMBDA r :
             IF isError(r.v) THEN [failed |-> TRUE, v |-> r.v, fields |-> acc, s |-> r.s]
             ELSE evalFields(fields, i + 1, env, r.s, Put(acc, NameOrder[i], r.v)))

\* evalExtendStatement's loop over stmt.Methods
RECURSIVE registerMethods(_, _, _, _)
registerMethods(ext, methods, i, env) ==
    IF i > Len(methods) THEN ext
    ELSE registerMethods(
             Put(ext, methods[i].name,
                 FunV(methods[i].name, methods[i].params, methods[i].body, env, FALSE)),
             methods, i + 1, env)

(***************************************************************************)
(* Modules.  s.files is the file system: for a path, what NewLexer,        *)
(* NewParser and ParseProgram make of the file's content (the Program and  *)
(* the parser's errors).  s.cache is ModuleLoader.cache and s.modules is   *)
(* Evaluator.modules.  s.reads, s.parsed and s.evaled are ghost fields:    *)
(* the paths given to os.ReadFile, the modules parsed and the modules      *)
(* whose program was given to Eval, in order.                              *)
(***************************************************************************)
basePath == "/base"

\* strings.Split(modulePath, "."), on the module paths of the model
Split(modulePath) ==
    CASE modulePath = "a.b.c" -> <<"a", "b", "c">>
      [] OTHER -> <<modulePath>>

\* filepath.Join
RECURSIVE Join(_, _)
Join(parts, i) ==
    IF i > Len(parts) THEN ""
    ELSE (IF i = 1 THEN "" ELSE "/") \o parts[i] \o Join(parts, i + 1)

\* ModuleLoader.resolvePath
resolvePath(modulePath) == basePath \o "/" \o Join(Split(modulePath), 1) \o ".moon"

\* ModuleLoader.Load: [ok, program, err, s]
Load(s, modulePath) ==
    IF modulePath \in DOMAIN s.cache
    THEN [ok |-> TRUE, program |-> s.cache[modulePath], err |-> "", s |-> s]
    ELSE With([s EXCEPT !.reads = Append(@, resolvePath(modulePath))], LAMBDA s1 :
        IF resolvePath(modulePath) \notin DOMAIN s.files
        THEN [ok |-> FALSE, program |-> <<>>, s |-> s1,
              err |-> "cannot load module " \o modulePath \o ": no such file"]
        ELSE With(s.files[resolvePath(modulePath)], LAMBDA file :
             With([s1 EXCEPT !.parsed = Append(@, modulePath)], LAMBDA s2 :
                 IF file.errors # <<>>
                 THEN [ok |-> FALSE, program |-> <<>>, s |-> s2,
                       err |-> "parse errors in module " \o modulePath \o ":\n"
                               \o file.errors[1]]
                 ELSE [ok |-> TRUE, program |-> file.stmts, err |-> "",
                       s |-> [s2 EXCEPT !.cache = Put(@, modulePath, file.stmts)]])))

\* evalProgram, as a module's program is evaluated
RECURSIVE evalProgram(_, _, _, _, _)
evalProgram(stmts, i, env, s, last) ==
    IF i > Len(stmts) THEN R(last, s)
    ELSE With(Eval(stmts[i], env, s), LAMBDA r :
             CASE r.v.t = "Return" -> R(r.v.val, r.s)
               [] r.v.t = "Error" -> r
               [] OTHER -> evalProgram(stmts, i + 1, env, r.s, r.v))

\* the goroutine stack is exhausted and the process ends
StackOverflow == ErrV("", "", "fatal error: stack overflow")

\* NewEnvironment and RegisterBuiltins
NewModuleEnvironment(s) ==
    [s EXCEPT !.envs = Append(@, [store |-> [n \in Builtins |-> BuiltinV(n)],
                                  parent |-> 0])]

\* evalImportStatement
evalImportStatement(stmt, env, s) ==
    With(stmt.path[1], LAMBDA moduleName :
        IF moduleName \in DOMAIN s.modules
        THEN R(s.modules[moduleName], EnvSet(s, env, moduleName, s.modules[moduleName]))
        ELSE IF s.depth >= MaxImportDepth THEN R(StackOverflow, s)
        ELSE With(Load(s, moduleName), LAMBDA l :
            IF ~l.ok THEN R(ErrV("", "", l.err), l.s)
            ELSE With(NewModuleEnvironment(l.s), LAMBDA s1 :
                 With(evalProgram(l.program, 1, LastEnv(s1),
                                  [s1 EXCEPT !.evaled = Append(@, moduleName),
                                             !.depth = @ + 1], NullV), LAMBDA r :
                 With(ModuleV(moduleName, LastEnv(s1)), LAMBDA mod :
                     IF isError(r.v) THEN R(r.v, [r.s EXCEPT !.depth = @ - 1])
                     ELSE R(mod, EnvSet([r.s EXCEPT !.depth = @ - 1,
                                                    !.modules = Put(@, moduleName, mod)],
                                        env, moduleName, mod)))))))

\* evalWhileStatement
RECURSIVE evalWhileStatement(_, _, _)
evalWhileStatement(stmt, env, s) ==
    With(Eval(stmt.cond, env, s), LAMBDA c :
        IF isError(c.v) THEN c
        ELSE IF ~IsTruthy(c.v, c.s) THEN R(NullV, c.s)
        ELSE With(NewEnclosedEnvironment(c.s, env), LAMBDA s1 :
             With(Eval(stmt.body, LastEnv(s1), s1), LAMBDA r :
                 CASE r.v.t = "Break" -> R(NullV, r.s)
                   [] r.v.t \in {"Return", "Error"} -> r
                   [] OTHER -> evalWhileStatement(stmt, env, r.s))))

\* evalPrefixExpression, evalMinusPrefixExpression and evalNotPrefixExpression
evalPrefixExpression(node, env, s) ==
    With(Eval(node.right, env, s), LAMBDA r :
    With(UnwrapValue(r.v, r.s), LAMBDA right :
        IF isError(r.v) THEN r
        ELSE CASE node.op = "-" ->
                    IF right.t = "Integer" THEN R(IntV(-right.n), r.s)
                    ELSE R(ErrV("", "", "unknown operator: -" \o TypeOf(right)), r.s)
               [] node.op = "not" -> R(BoolV(~IsTruthy(right, r.s)), r.s)
               [] OTHER ->
                    R(ErrV("", "", "unknown operator: " \o node.op \o TypeOf(right)),
                      r.s)))

\* evalMapLiteral, of a literal without pairs
evalMapLiteral(node, env, s) == R(MapV(<<>>), s)

\* evalWithExpression; the struct it returns is the one StructValue.With builds:
\* the receiver's fields overlaid with the updates
evalWithExpression(node, env, s) ==
    With(Eval(node.object, env, s), LAMBDA o :
        IF isError(o.v) THEN o
        ELSE With(UnwrapValue(o.v, o.s), LAMBDA structVal :
            IF structVal.t # "Struct"
            THEN R(ErrV("", "", "with can only be used on structs, got " \o TypeOf(o.v)),
                   o.s)
            ELSE With(evalFields(node.updates, 1, env, o.s, <<>>), LAMBDA f :
                     IF f.failed THEN R(f.v, f.s)
                     ELSE R(StructV(structVal.def,
                                    [n \in (DOMAIN structVal.fields) \cup (DOMAIN f.fields) |->
                                        IF n \in DOMAIN f.fields THEN f.fields[n]
                                        ELSE structVal.fields[n]]),
                            f.s))))

\* evalIfExpression
evalIfExpression(node, env, s) ==
    With(Eval(node.cond, env, s), LAMBDA c :
    With(NewEnclosedEnvironment(c.s, env), LAMBDA s1 :
        IF isError(c.v) THEN c
        ELSE IF IsTruthy(c.v, c.s) THEN Eval(node.cons, LastEnv(s1), s1)
        ELSE IF node.alt # NoNode THEN Eval(node.alt, LastEnv(s1), s1)
        ELSE R(NullV, c.s)))

\* Evaluator.Eval
Eval(node, env, s) ==
    CASE node.k = "DefStatement" ->
            With(Eval(node.value, env, s),
                 LAMBDA r : R(r.v, EnvSet(r.s, env, node.name, r.v)))
      [] node.k = "ReturnStatement" ->
            IF node.value = NoNode THEN R(RetV(NullV), s)
            ELSE With(Eval(node.value, env, s),
                      LAMBDA r : IF isError(r.v) THEN r ELSE R(RetV(r.v), r.s))
      [] node.k = "ExpressionStatement" -> Eval(node.expr, env, s)
      [] node.k = "BlockStatement" -> evalBlockStatement(node, env, s)
      [] node.k = "FunctionStatement" ->
            With(FunV(node.name, node.params, node.body, env, FALSE),
                 LAMBDA fn : R(fn, EnvSet(s, env, node.name, fn)))
      [] node.k = "WhileStatement" -> evalWhileStatement(node, env, s)
      [] node.k = "ForStatement" -> evalForStatement(node, env, s)
      [] node.k = "ImportStatement" -> evalImportStatement(node, env, s)
      [] node.k = "BreakStatement" -> R(BreakV, s)
      [] node.k = "ContinueStatement" -> R(ContV, s)
      [] node.k = "StructStatement" ->
            With(StructDefV(node.name, node.fields), LAMBDA def :
                R(def, EnvSet([s EXCEPT !.structs = Put(@, node.name, def)],
                              env, node.name, def)))
      [] node.k = "ExtendStatement" ->
            R(NullV, [s EXCEPT !.ext =
                        Put(@, node.typeName,
                            registerMethods(IF node.typeName \in DOMAIN s.ext
                                            THEN s.ext[node.typeName] ELSE <<>>,
                                            node.methods, 1, env))])
      [] node.k = "IntegerLiteral" -> R(IntV(node.n), s)
      [] node.k = "StringLiteral" -> R(StrV(node.str), s)
      [] node.k = "BooleanLiteral" -> R(BoolV(node.b), s)
      [] node.k = "Identifier" ->
            With(EnvGet(s, env, node.name), LAMBDA g :
                IF g.ok THEN R(g.val, s) ELSE R(ErrV("", "", "undefined: " \o node.name), s))
      [] node.k = "PrefixExpression" -> evalPrefixExpression(node, env, s)
      [] node.k = "InfixExpression" -> evalInfixExpression(node, env, s)
      [] node.k = "AssignmentExpression" ->
            With(evalAssignmentExpression(node, env, s), LAMBDA r :
            With(Eval(node.value, env, s), LAMBDA e :
                R(r.v, LoggedAssign(r.s, s, node.name, e, EnvGet(e.s, env, node.name),
                                    r.v))))
      [] node.k = "IfExpression" -> evalIfExpression(node, env, s)
      [] node.k = "FunctionLiteral" -> R(FunV("", node.params, node.body, env, TRUE), s)
      [] node.k = "CallExpression" ->
            IF node.fn.k = "MemberExpression"
            THEN evalMethodCall(node.fn, node.args, env, s)
            ELSE With(Eval(node.fn, env, s), LAMBDA f :
                 With(evalExpressions(node.args, env, f.s, 1, <<>>), LAMBDA a :
                     applyFunction(f.v, a.vs, a.s)))
      [] node.k = "MemberExpression" -> evalMemberExpression(node, env, s)
      [] node.k = "ListLiteral" ->
            With(evalExpressions(node.elems, env, s, 1, <<>>), LAMBDA a :
                IF Len(a.vs) = 1 /\ isError(a.vs[1]) THEN R(a.vs[1], a.s)
                ELSE R(ListV(a.vs), a.s))
      [] node.k = "MapLiteral" -> evalMapLiteral(node, env, s)
      [] node.k = "WithExpression" -> evalWithExpression(node, env, s)
      [] node.k = "StructLiteral" ->
            IF node.name \notin DOMAIN s.structs
            THEN R(ErrV("", "", "undefined struct: " \o node.name), s)
            ELSE With(evalFields(node.fields, 1, env, s, <<>>), LAMBDA f :
                     IF f.failed THEN R(f.v, f.s) ELSE R(StructV(node.name, f.fields), f.s))
      [] node.k = "ResultExpression" -> evalResultExpression(node, env, s)
      [] node.k = "OptionExpression" -> evalOptionExpression(node, env, s)
      [] node.k = "MatchExpression" -> evalMatchExpression(node, env, s)
      [] node.k = "MutableExpression" -> evalMutableExpression(node, env, s)
      [] OTHER -> R(NullV, s)

(***************************************************************************)
(* The type model (Type, TypeFromAnnotation) and the type checker          *)
(* (TypeChecker).  A type is a record whose field `t` is the Go type;      *)
(* MapType and the nodes the generated programs do not contain are not     *)
(* modelled.                                                               *)
(***************************************************************************)
IntegerType == [t |-> "Integer"]
FloatType == [t |-> "Float"]
StringType == [t |-> "String"]
BooleanType == [t |-> "Boolean"]
NullType == [t |-> "Null"]
AnyType == [t |-> "Any"]
ListType(e) == [t |-> "List", elem |-> e]
OptionType(e) == [t |-> "Option", elem |-> e]
MutableType(e) == [t |-> "Mutable", elem |-> e]
ResultType(v, e) == [t |-> "Result", val |-> v, err |-> e]
FunctionType(params, ret) == [t |-> "Function", params |-> params, ret |-> ret]
StructType(name, fields) == [t |-> "Struct", name |-> name, fields |-> fields]
MapType(k, v) == [t |-> "Map", key |-> k, val |-> v]
\* a nil Type, as checkBlockStatement's expectedReturn outside function bodies
NoType == [t |-> "nil"]

RECURSIVE TypeString(_)
RECURSIVE JoinTypes(_, _)
JoinTypes(ts, i) ==
    IF i > Len(ts) THEN ""
    ELSE (IF i = 1 THEN "" ELSE ", ") \o TypeString(ts[i]) \o JoinTypes(ts, i + 1)

\* Type.String()
TypeString(ty) ==
    CASE ty.t \in {"Integer", "Float", "String", "Boolean", "Null", "Any"} -> ty.t
      [] ty.t \in {"List", "Option", "Mutable"} -> ty.t \o "[" \o TypeString(ty.elem) \o "]"
      [] ty.t = "Result" ->
            "Result[" \o TypeString(ty.val) \o ", " \o TypeString(ty.err) \o "]"
      [] ty.t = "Function" -> "(" \o JoinTypes(ty.params, 1) \o ") -> " \o TypeString(ty.ret)
      [] ty.t = "Struct" -> ty.name
      [] ty.t = "Map" -> "Map[" \o TypeString(ty.key) \o ", " \o TypeString(ty.val) \o "]"

\* Type.Equals
RECURSIVE Equals(_, _)
Equals(a, b) ==
    CASE a.t = "Any" -> TRUE
      [] a.t \in {"Integer", "Float", "String", "Boolean", "Null"} -> b.t = a.t
      [] a.t \in {"List", "Option", "Mutable"} -> b.t = a.t /\ Equals(a.elem, b.elem)
      [] a.t = "Result" -> b.t = "Result" /\ Equals(a.val, b.val) /\ Equals(a.err, b.err)
      [] a.t = "Function" ->
            /\ b.t = "Function"
            /\ Len(a.params) = Len(b.params)
            /\ \A i \in 1..Len(a.params) : Equals(a.params[i], b.params[i])
            /\ Equals(a.ret, b.ret)
      [] a.t = "Struct" -> b.t = "Struct" /\ a.name = b.name
      [] a.t = "Map" -> b.t = "Map" /\ Equals(a.key, b.key) /\ Equals(a.val, b.val)

\* TypeFromAnnotation
RECURSIVE TypeFromAnnotation(_)
TypeFromAnnotation(ta) ==
    IF ta.k = "nil" THEN AnyType
    ELSE With(IF Len(ta.typeParams) > 0 THEN TypeFromAnnotation(ta.typeParams[1])
              ELSE AnyType, LAMBDA first :
            CASE ta.name = "Integer" -> IntegerType
              [] ta.name = "Float" -> FloatType
              [] ta.name = "String" -> StringType
              [] ta.name = "Boolean" -> BooleanType
              [] ta.name = "List" -> ListType(first)
              [] ta.name = "Option" -> OptionType(first)
              [] ta.name = "Result" ->
                    ResultType(first, IF Len(ta.typeParams) > 1
                                      THEN TypeFromAnnotation(ta.typeParams[2])
                                      ELSE StringType)
              [] ta.name = "Map" ->
                    MapType(StringType, IF Len(ta.typeParams) > 1
                                        THEN TypeFromAnnotation(ta.typeParams[2])
                                        ELSE AnyType)
              [] ta.name = "Mutable" -> MutableType(first)
              [] ta.name \notin {"Integer", "Float", "String", "Boolean", "List", "Map",
                                 "Option", "Result", "Mutable"} ->
                    StructType(ta.name, <<>>))

\* TypeChecker.isAssignable
RECURSIVE isAssignable(_, _)
isAssignable(expected, actual) ==
    IF expected.t = "Any" THEN TRUE
    ELSE IF actual.t = "Any" THEN TRUE
    ELSE IF actual.t = "Mutable" THEN isAssignable(expected, actual.elem)
    ELSE IF expected.t = "Option" /\ actual.t = "Option"
         THEN isAssignable(expected.elem, actual.elem)
    ELSE IF expected.t = "Result" /\ actual.t = "Result"
         THEN isAssignable(expected.val, actual.val)
    ELSE Equals(expected, actual)

\* TypeChecker.isNumeric
RECURSIVE isNumeric(_)
isNumeric(ty) ==
    IF ty.t = "Any" THEN TRUE
    ELSE IF ty.t = "Mutable" THEN isNumeric(ty.elem)
    ELSE ty.t \in {"Integer", "Float"}

\* TypeChecker.isString
RECURSIVE isString(_)
isString(ty) ==
    IF ty.t = "Any" THEN TRUE
    ELSE IF ty.t = "Mutable" THEN isString(ty.elem)
    ELSE ty.t = "String"

\* TypeChecker.isBooleanCompatible
RECURSIVE isBooleanCompatible(_)
isBooleanCompatible(ty) ==
    IF ty.t = "Any" THEN TRUE
    ELSE IF ty.t = "Mutable" THEN isBooleanCompatible(ty.elem)
    ELSE ty.t = "Boolean"

\* TypeChecker.isComparable
isComparable(a0, b0) ==
    IF a0.t = "Any" \/ b0.t = "Any" THEN TRUE
    ELSE LET a == IF a0.t = "Mutable" THEN a0.elem ELSE a0
             b == IF b0.t = "Mutable" THEN b0.elem ELSE b0
         IN (isNumeric(a) /\ isNumeric(b)) \/ (isString(a) /\ isString(b))

(***************************************************************************)
(* The checker state c: the heap of TypeEnvironments with c.env the index  *)
(* of tc.env, tc.structs, tc.functions and tc.errors.  c.curRet, c.funs,   *)
(* c.returns and c.assigns are ghost fields: the declared return type of   *)
(* the function whose body is being checked, and the function statements,  *)
(* return statements and `==` assignments the checker has visited.         *)
(* Every check function returns [ty |-> the Type, c |-> the state after].  *)
(***************************************************************************)
T(ty, c) == [ty |-> ty, c |-> c]

\* NewEnclosedTypeEnvironment(tc.env), made the current environment
Enclosed(c) ==
    [c EXCEPT !.envs = Append(@, [store |-> <<>>, parent |-> c.env]),
              !.env = Len(c.envs) + 1]

\* TypeEnvironment.Get
RECURSIVE TypeGet(_, _, _)
TypeGet(c, e, name) ==
    IF name \in DOMAIN c.envs[e].store
    THEN [ok |-> TRUE, ty |-> c.envs[e].store[name]]
    ELSE IF c.envs[e].parent # 0 THEN TypeGet(c, c.envs[e].parent, name)
         ELSE [ok |-> FALSE, ty |-> AnyType]

\* TypeEnvironment.Set on tc.env
TypeSet(c, name, ty) ==
    LET old == c.envs[c.env].store
    IN [c EXCEPT !.envs[c.env].store =
            [n \in (DOMAIN old) \cup {name} |-> IF n = name THEN ty ELSE old[n]]]

\* TypeChecker.addError
addError(c, msg) == [c EXCEPT !.errors = Append(@, msg)]

\* NewTypeChecker
NewTypeChecker ==
    [envs |-> <<[store |->
                   [n \in {"print", "println", "range", "len", "type", "str", "int", "float"} |->
                       CASE n \in {"print", "println"} -> FunctionType(<<AnyType>>, NullType)
                         [] n = "range" ->
                               FunctionType(<<IntegerType, IntegerType>>, ListType(IntegerType))
                         [] n \in {"len", "int"} -> FunctionType(<<AnyType>>, IntegerType)
                         [] n \in {"type", "str"} -> FunctionType(<<AnyType>>, StringType)
                         [] n = "float" -> FunctionType(<<AnyType>>, FloatType)],
                  parent |-> 0]>>,
     env |-> 1, structs |-> <<>>, functions |-> <<>>, errors |-> <<>>,
     curRet |-> NoType, funs |-> <<>>, returns |-> <<>>, assigns |-> <<>>,
     panic |-> ""]

\* a Go run-time panic in the checker: nothing recovers it, Check does not
\* return and what the model computes after it is of no account
CheckPanic(c, message) == [c EXCEPT !.panic = IF @ = "" THEN message ELSE @]

\* TypeChecker.collectStruct
collectStruct(stmt, c) ==
    With(StructType(stmt.name,
                    [n \in {stmt.fields[i] : i \in 1..Len(stmt.fields)} |->
                        TypeFromAnnotation(
                            stmt.hints[CHOOSE i \in 1..Len(stmt.fields) :
                                           stmt.fields[i] = n])]),
         LAMBDA st0 : TypeSet([c EXCEPT !.structs = Put(@, stmt.name, st0)], stmt.name, st0))

\* TypeChecker.collectFunction
collectFunction(stmt, c) ==
    With(FunctionType([i \in 1..Len(stmt.params) |-> TypeFromAnnotation(stmt.hints[i])],
                      TypeFromAnnotation(stmt.returnType)),
         LAMBDA fnType :
             TypeSet([c EXCEPT !.functions = Put(@, stmt.name, fnType)], stmt.name, fnType))

\* TypeChecker.collectExtend
RECURSIVE collectExtend(_, _, _)
collectExtend(stmt, i, c) ==
    IF i > Len(stmt.methods) THEN c
    ELSE collectExtend(stmt, i + 1, collectFunction(stmt.methods[i], c))

RECURSIVE checkStatement(_, _)
RECURSIVE checkExpression(_, _)
RECURSIVE checkBlockFrom(_, _, _, _, _)
RECURSIVE checkAll(_, _, _)
RECURSIVE checkMethods(_, _, _)
RECURSIVE checkElements(_, _, _, _)
RECURSIVE checkFieldsFrom(_, _, _, _)
RECURSIVE checkMatchFrom(_, _, _, _)

\* checkExpression on every expression of a list, the types discarded
checkAll(exprs, i, c) ==
    IF i > Len(exprs) THEN c ELSE checkAll(exprs, i + 1, checkExpression(exprs[i], c).c)

\* the loop of checkBlockStatement from statement i on
checkBlockFrom(stmts, i, expectedReturn, c, lastType) ==
    IF i > Len(stmts) \/ c.panic # "" THEN T(lastType, c)
    ELSE With(checkStatement(stmts[i], c), LAMBDA r :
             checkBlockFrom(stmts, i + 1, expectedReturn,
                 IF stmts[i].k = "ReturnStatement" /\ expectedReturn.t # "nil"
                 THEN With(checkExpression(stmts[i].value, r.c), LAMBDA rt :
                          IF ~isAssignable(expectedReturn, rt.ty)
                          THEN addError(rt.c, "cannot return " \o TypeString(rt.ty)
                                              \o " from function expecting "
                                              \o TypeString(expectedReturn))
                          ELSE rt.c)
                 ELSE r.c,
                 r.ty))

\* TypeChecker.checkBlockStatement
checkBlockStatement(block, expectedReturn, c) ==
    checkBlockFrom(block.stmts, 1, expectedReturn, c, NullType)

\* TypeChecker.checkDefStatement
checkDefStatement(stmt, c) ==
    With(checkExpression(stmt.value, c), LAMBDA v :
    With(TypeFromAnnotation(stmt.typeHint), LAMBDA expectedType :
        IF stmt.typeHint.k # "nil"
        THEN T(expectedType,
               TypeSet(IF ~isAssignable(expectedType, v.ty)
                       THEN addError(v.c, "cannot assign " \o TypeString(v.ty)
                                          \o " to variable of type "
                                          \o TypeString(expectedType))
                       ELSE v.c,
                       stmt.name, expectedType))
        ELSE T(v.ty, TypeSet(v.c, stmt.name, v.ty))))

\* the parameters of a function set in tc.env
RECURSIVE SetParams(_, _, _, _)
SetParams(c, params, types, i) ==
    IF i > Len(params) \/ i > Len(types) THEN c
    ELSE SetParams(TypeSet(c, params[i], types[i]), params, types, i + 1)

\* the body of a function or method checked against its declared return type
checkBody(stmt, fnType, c) ==
    With(checkBlockStatement(stmt.body, fnType.ret, [c EXCEPT !.curRet = fnType.ret]),
         LAMBDA b :
             [b.c EXCEPT !.curRet = c.curRet,
                         !.funs = Append(@, [name |-> stmt.name, ret |-> fnType.ret,
                                             errors0 |-> Len(c.errors),
                                             errors1 |-> Len(b.c.errors)])])

\* TypeChecker.checkFunctionStatement.  tc.functions[name] is nil for a name
\* collectFunction has not seen, and fnType.Parameters[i] and fnType.Return
\* dereference it; fnType.Parameters[i] is out of range when the function
\* collected last under the name has fewer parameters
checkFunctionStatement(stmt, c) ==
    IF stmt.name \notin DOMAIN c.functions
    THEN T(NoType, CheckPanic(c, "invalid memory address or nil pointer dereference"))
    ELSE With(c.functions[stmt.name], LAMBDA fnType :
        IF Len(stmt.params) > Len(fnType.params)
        THEN T(NoType, CheckPanic(c, "index out of range"))
        ELSE T(fnType,
               [checkBody(stmt, fnType,
                          SetParams(Enclosed(c), stmt.params, fnType.params, 1))
                   EXCEPT !.env = c.env]))

\* TypeChecker.checkReturnStatement
checkReturnStatement(stmt, c) ==
    With(checkExpression(stmt.value, c), LAMBDA r :
        T(r.ty, [r.c EXCEPT !.returns =
                     Append(@, [expected |-> c.curRet, actual |-> r.ty])]))

\* TypeChecker.checkForStatement
checkForStatement(stmt, c) ==
    With(checkExpression(stmt.iter, c), LAMBDA it :
        IF it.ty.t # "List"
        THEN T(NullType, addError(it.c, "cannot iterate over " \o TypeString(it.ty)))
        ELSE With(checkBlockStatement(stmt.body, NoType,
                                      TypeSet(Enclosed(it.c), stmt.var, it.ty.elem)),
                  LAMBDA b : T(NullType, [b.c EXCEPT !.env = c.env])))

\* the loop of checkExtendStatement over stmt.Methods
checkMethods(stmt, i, c) ==
    IF i > Len(stmt.methods) THEN c
    ELSE With(stmt.methods[i], LAMBDA method :
         With(TypeSet(Enclosed(c), "this",
                      IF stmt.typeName \in DOMAIN c.structs
                      THEN c.structs[stmt.typeName] ELSE AnyType),
              LAMBDA c1 :
                  checkMethods(stmt, i + 1,
                      [(IF method.name \in DOMAIN c.functions
                        THEN checkBody(method, c.functions[method.name],
                                       SetParams(c1, method.params,
                                                 c.functions[method.name].params, 1))
                        ELSE c1) EXCEPT !.env = c.env])))

\* TypeChecker.checkExtendStatement
checkExtendStatement(stmt, c) == T(NullType, checkMethods(stmt, 1, c))

\* TypeChecker.checkWhileStatement
checkWhileStatement(stmt, c) ==
    With(checkExpression(stmt.cond, c), LAMBDA cd :
    With(IF isBooleanCompatible(cd.ty) THEN cd.c
         ELSE addError(cd.c, "while condition must be a boolean expression"), LAMBDA c1 :
    With(checkBlockStatement(stmt.body, NoType, Enclosed(c1)), LAMBDA b :
        T(NullType, [b.c EXCEPT !.env = c.env]))))

\* TypeChecker.checkStatement; while and import statements are not modelled
checkStatement(stmt, c) ==
    CASE stmt.k = "DefStatement" -> checkDefStatement(stmt, c)
      [] stmt.k = "FunctionStatement" -> checkFunctionStatement(stmt, c)
      [] stmt.k = "ReturnStatement" -> checkReturnStatement(stmt, c)
      [] stmt.k = "ExpressionStatement" -> checkExpression(stmt.expr, c)
      [] stmt.k = "WhileStatement" -> checkWhileStatement(stmt, c)
      [] stmt.k = "ForStatement" -> checkForStatement(stmt, c)
      [] stmt.k = "StructStatement" -> T(c.structs[stmt.name], c)
      [] stmt.k = "ExtendStatement" -> checkExtendStatement(stmt, c)
      [] stmt.k = "ImportStatement" -> T(NullType, c)
      [] stmt.k \in {"BreakStatement", "ContinueStatement"} -> T(NullType, c)
      [] stmt.k = "BlockStatement" -> T(AnyType, c)

\* TypeChecker.checkIdentifier
checkIdentifier(ident, c) ==
    With(TypeGet(c, c.env, ident.name), LAMBDA g :
        IF ~g.ok THEN T(AnyType, addError(c, "undefined: " \o ident.name)) ELSE T(g.ty, c))

\* checkInfixExpression on the operands' types
infixType(op, leftType, rightType, c) ==
    CASE op \in {"+", "-", "*", "/", "%"} ->
            IF (~isNumeric(leftType) \/ ~isNumeric(rightType))
               /\ op = "+" /\ isString(leftType) /\ isString(rightType)
            THEN T(StringType, c)
            ELSE T(IF leftType.t = "Float" \/ rightType.t = "Float"
                   THEN FloatType ELSE IntegerType,
                   IF ~isNumeric(leftType) \/ ~isNumeric(rightType)
                   THEN addError(c, "operator " \o op \o " not defined for "
                                    \o TypeString(leftType) \o " and "
                                    \o TypeString(rightType))
                   ELSE c)
      [] op \in {">", "<", ">=", "<="} ->
            T(BooleanType,
              IF ~isComparable(leftType, rightType)
              THEN addError(c, "cannot compare " \o TypeString(leftType) \o " and "
                               \o TypeString(rightType))
              ELSE c)
      [] op \in {"and", "or", "is"} -> T(BooleanType, c)
      [] OTHER -> T(AnyType, c)

\* TypeChecker.checkInfixExpression
checkInfixExpression(expr, c) ==
    With(checkExpression(expr.left, c), LAMBDA l :
    With(checkExpression(expr.right, l.c), LAMBDA r :
        infixType(expr.op, l.ty, r.ty, r.c)))

\* TypeChecker.checkAssignmentExpression
checkAssignmentExpression(expr, c) ==
    With(TypeGet(c, c.env, expr.name), LAMBDA g :
        IF ~g.ok THEN T(AnyType, addError(c, "undefined: " \o expr.name))
        ELSE IF g.ty.t # "Mutable"
             THEN T(AnyType, addError(c, expr.name \o " is not mutable"))
        ELSE With(checkExpression(expr.value, c), LAMBDA v :
                 T(g.ty.elem,
                   IF ~isAssignable(g.ty.elem, v.ty)
                   THEN addError(v.c, "cannot assign " \o TypeString(v.ty)
                                      \o " to Mutable[" \o TypeString(g.ty.elem) \o "]")
                   ELSE v.c)))

\* TypeChecker.checkIfExpression
checkIfExpression(expr, c) ==
    With(checkExpression(expr.cond, c), LAMBDA cond :
    With(checkBlockStatement(expr.cons, NoType,
             Enclosed(IF ~isBooleanCompatible(cond.ty)
                      THEN addError(cond.c, "if condition must be a boolean expression")
                      ELSE cond.c)),
         LAMBDA cons :
             IF expr.alt.k # "nil"
             THEN With(checkBlockStatement(expr.alt, NoType,
                                           Enclosed([cons.c EXCEPT !.env = c.env])),
                       LAMBDA alt : T(cons.ty, [alt.c EXCEPT !.env = c.env]))
             ELSE T(cons.ty, [cons.c EXCEPT !.env = c.env])))

\* TypeChecker.checkCallExpression
checkCallExpression(expr, c) ==
    With(checkExpression(expr.fn, c), LAMBDA f :
        CASE f.ty.t = "Struct" -> f
          [] f.ty.t # "Struct" ->
                T(IF f.ty.t = "Function" THEN f.ty.ret ELSE AnyType,
                  checkAll(expr.args, 1, f.c)))

\* TypeChecker.checkMemberExpression
checkMemberExpression(expr, c) ==
    With(checkExpression(expr.object, c), LAMBDA o :
    With(IF o.ty.t = "Mutable" THEN o.ty.elem ELSE o.ty, LAMBDA objType :
        IF objType.t = "Struct" /\ expr.member \in DOMAIN objType.fields
        THEN T(objType.fields[expr.member], o.c)
        ELSE T(AnyType, o.c)))

\* the loop of checkListLiteral over the elements after the first
checkElements(elems, i, elemType, c) ==
    IF i > Len(elems) THEN c
    ELSE With(checkExpression(elems[i], c), LAMBDA e :
             checkElements(elems, i + 1, elemType,
                 IF ~isAssignable(elemType, e.ty) /\ elemType.t # "Any"
                 THEN addError(e.c, "list elements must have the same type")
                 ELSE e.c))

\* TypeChecker.checkListLiteral
checkListLiteral(expr, c) ==
    IF Len(expr.elems) = 0 THEN T(ListType(AnyType), c)
    ELSE With(checkExpression(expr.elems[1], c), LAMBDA first :
             T(ListType(first.ty), checkElements(expr.elems, 2, first.ty, first.c)))

\* the loop of checkStructLiteral over expr.Fields, taken in NameOrder
checkFieldsFrom(expr, st0, i, c) ==
    IF i > Len(NameOrder) THEN c
    ELSE IF NameOrder[i] \notin DOMAIN expr.fields THEN checkFieldsFrom(expr, st0, i + 1, c)
    ELSE IF NameOrder[i] \notin DOMAIN st0.fields
         THEN checkFieldsFrom(expr, st0, i + 1,
                  addError(c, "undefined field " \o NameOrder[i] \o " on " \o st0.name))
    ELSE With(checkExpression(expr.fields[NameOrder[i]], c), LAMBDA a :
             checkFieldsFrom(expr, st0, i + 1,
                 IF ~isAssignable(st0.fields[NameOrder[i]], a.ty)
                 THEN addError(a.c, "cannot assign " \o TypeString(a.ty) \o " to field "
                                    \o NameOrder[i] \o " of type "
                                    \o TypeString(st0.fields[NameOrder[i]]))
                 ELSE a.c))

\* TypeChecker.checkStructLiteral
checkStructLiteral(expr, c) ==
    IF expr.name \notin DOMAIN c.structs
    THEN T(AnyType, addError(c, "undefined struct: " \o expr.name))
    ELSE T(c.structs[expr.name], checkFieldsFrom(expr, c.structs[expr.name], 1, c))

\* TypeChecker.checkWithExpression; the updates are checked by the same loop as
\* the fields of a struct literal
checkWithExpression(expr, c) ==
    With(checkExpression(expr.object, c), LAMBDA o :
    With(IF o.ty.t = "Mutable" THEN o.ty.elem ELSE o.ty, LAMBDA objType :
        IF objType.t # "Struct"
        THEN T(AnyType, addError(o.c, "with can only be used on structs"))
        ELSE T(objType, checkFieldsFrom([fields |-> expr.updates], objType, 1, o.c))))

\* TypeChecker.checkOptionExpression
checkOptionExpression(expr, c) ==
    IF ~expr.isSome THEN T(OptionType(AnyType), c)
    ELSE With(checkExpression(expr.value, c), LAMBDA e : T(OptionType(e.ty), e.c))

\* the loop of checkMatchExpression over expr.Cases
checkMatchFrom(expr, i, c, resultType) ==
    IF i > Len(expr.cases) THEN T(resultType, c)
    ELSE With(Enclosed(c), LAMBDA c1 :
         With(IF expr.cases[i].bindingVar.k # "nil"
              THEN TypeSet(c1, expr.cases[i].bindingVar.name, AnyType)
              ELSE c1, LAMBDA c2 :
         With(checkBlockStatement(expr.cases[i].body, NoType, c2), LAMBDA b :
             checkMatchFrom(expr, i + 1, [b.c EXCEPT !.env = c.env], b.ty))))

\* TypeChecker.checkMatchExpression
checkMatchExpression(expr, c) ==
    With(checkExpression(expr.value, c), LAMBDA v : checkMatchFrom(expr, 1, v.c, NullType))

\* TypeChecker.checkResultExpression
checkResultExpression(expr, c) ==
    With(checkExpression(expr.value, c), LAMBDA v :
        IF expr.isOk THEN T(ResultType(v.ty, StringType), v.c)
        ELSE T(ResultType(AnyType, v.ty), v.c))

\* TypeChecker.checkMutableExpression
checkMutableExpression(expr, c) ==
    With(checkExpression(expr.value, c), LAMBDA v :
        T(MutableType(IF expr.typeHint.k # "nil" THEN TypeFromAnnotation(expr.typeHint)
                      ELSE v.ty), v.c))

\* TypeChecker.checkPrefixExpression
checkPrefixExpression(expr, c) ==
    With(checkExpression(expr.right, c), LAMBDA r :
        CASE expr.op = "-" ->
                IF isNumeric(r.ty) THEN r
                ELSE T(r.ty, addError(r.c, "operator - not defined for "
                                           \o TypeString(r.ty)))
          [] expr.op = "not" -> T(BooleanType, r.c)
          [] OTHER -> T(AnyType, r.c))

\* TypeChecker.checkMapLiteral, of a literal without pairs
checkMapLiteral(expr, c) == T(MapType(StringType, AnyType), c)

\* TypeChecker.checkExpression; prefix, index, map, with, option and match
\* expressions are not modelled
checkExpression(expr, c) ==
    CASE expr.k = "nil" -> T(NullType, c)
      [] expr.k = "IntegerLiteral" -> T(IntegerType, c)
      [] expr.k = "StringLiteral" -> T(StringType, c)
      [] expr.k = "BooleanLiteral" -> T(BooleanType, c)
      [] expr.k = "Identifier" -> checkIdentifier(expr, c)
      [] expr.k = "PrefixExpression" -> checkPrefixExpression(expr, c)
      [] expr.k = "InfixExpression" -> checkInfixExpression(expr, c)
      [] expr.k = "AssignmentExpression" ->
            With(checkAssignmentExpression(expr, c), LAMBDA r :
                T(r.ty, [r.c EXCEPT !.assigns =
                             Append(@, [name |-> expr.name,
                                        var |-> TypeGet(c, c.env, expr.name)])]))
      [] expr.k = "IfExpression" -> checkIfExpression(expr, c)
      [] expr.k = "FunctionLiteral" ->
            T(FunctionType([i \in 1..Len(expr.params) |-> AnyType], AnyType), c)
      [] expr.k = "CallExpression" -> checkCallExpression(expr, c)
      [] expr.k = "MemberExpression" -> checkMemberExpression(expr, c)
      [] expr.k = "ListLiteral" -> checkListLiteral(expr, c)
      [] expr.k = "MapLiteral" -> checkMapLiteral(expr, c)
      [] expr.k = "WithExpression" -> checkWithExpression(expr, c)
      [] expr.k = "StructLiteral" -> checkStructLiteral(expr, c)
      [] expr.k = "ResultExpression" -> checkResultExpression(expr, c)
      [] expr.k = "OptionExpression" -> checkOptionExpression(expr, c)
      [] expr.k = "MatchExpression" -> checkMatchExpression(expr, c)
      [] expr.k = "MutableExpression" -> checkMutableExpression(expr, c)

\* Check's first pass
RECURSIVE collectFrom(_, _, _)
collectFrom(stmts, i, c) ==
    IF i > Len(stmts) THEN c
    ELSE collectFrom(stmts, i + 1,
             CASE stmts[i].k = "StructStatement" -> collectStruct(stmts[i], c)
               [] stmts[i].k = "FunctionStatement" -> collectFunction(stmts[i], c)
               [] stmts[i].k = "ExtendStatement" -> collectExtend(stmts[i], 1, c)
               [] OTHER -> c)

\* Check's second pass
RECURSIVE checkFrom(_, _, _)
checkFrom(stmts, i, c) ==
    IF i > Len(stmts) \/ c.panic # "" THEN c
    ELSE checkFrom(stmts, i + 1, checkStatement(stmts[i], c).c)

\* TypeChecker.Check: the checker after both passes; Check returns errors[1]
\* when there is one
Check(prog) == checkFrom(prog, 1, collectFrom(prog, 1, NewTypeChecker))

(***************************************************************************)
(* The programs the evaluator and the checker are run on.                  *)
(***************************************************************************)
SeqsUpTo(S, n) == UNION {[1..m -> S] : m \in 1..n}

\* statements whose results are the kinds evalBlockStatement and evalProgram
\* tell apart: a value, an ErrorValue, Return, Break, Continue
Atoms ==
    { ExprS(IntLit(1)), ExprS(Infix("/", IntLit(1), IntLit(0))), Ret(IntLit(7)), Brk, Cont,
      Def("x", IntLit(2)), ExprS(If(BoolLit(TRUE), <<Ret(IntLit(7))>>)) }
Bodies == SeqsUpTo(Atoms, MaxBlockLen)

CallF == ExprS(Call(Id("f"), <<>>))
OneTwo == ListLit(<<IntLit(1), IntLit(2)>>)

\* a body as the program, in an if block, in a loop, as a function body, and
\* as the body of a function called from a loop
BlockPrograms ==
    Bodies
    \cup { <<ExprS(If(BoolLit(TRUE), b))>> : b \in Bodies }
    \cup { <<For("i", OneTwo, b)>> : b \in Bodies }
    \cup { <<Fun("f", <<>>, b), CallF>> : b \in Bodies }
    \cup { <<Fun("f", <<>>, b), For("i", OneTwo, <<CallF, ExprS(IntLit(1))>>)>> :
             b \in Bodies }

\* struct User with two extension methods; the receiver is a plain User, a
\* Mutable User, Ok(User), Mutable Ok(User) or an Error Result; the method is called
\* at top level or from inside a function
UserStruct == StructS("User", <<"name", "age">>, <<Ann("String", <<>>), Ann("Integer", <<>>)>>)
UserLit == StructLit("User", [name |-> StrLit("Bob"), age |-> IntLit(16)])
Receivers ==
    { UserLit, MutableE(UserLit), ResultE(TRUE, UserLit), MutableE(ResultE(TRUE, UserLit)),
      ResultE(FALSE, StrLit("boom")) }
UserMethods ==
    << Fun("validate", <<>>, <<Ret(ResultE(FALSE, StrLit("Must be 18+")))>>),
       Fun("plain", <<>>, <<Ret(IntLit(1))>>) >>
MethodNames == {"validate", "plain"}
Send(m) == Call(Member(Id("u"), m), <<>>)
MethodPrograms ==
    { <<UserStruct, Extend("User", UserMethods), Def("u", r)>>
        \o site : r \in Receivers,
                  site \in UNION { { <<ExprS(Send(m))>>,
                                     <<Fun("check", <<>>, <<Ret(Send(m))>>),
                                       ExprS(Call(Id("check"), <<>>))>> } :
                                   m \in MethodNames } }

\* chains r.m1(f1).m2(f2)... of then/map over closures and a named function
Closures ==
    { Lambda(<<"x">>, Infix("+", Id("x"), IntLit(1))),
      Lambda(<<"x">>, ResultE(TRUE, Id("x"))),
      Id("g") }
Links == [m : {"then", "map"}, f : Closures]
RECURSIVE ChainExpr(_, _, _)
ChainExpr(base, links, n) ==
    IF n = 0 THEN base
    ELSE Call(Member(ChainExpr(base, links, n - 1), links[n].m), <<links[n].f>>)
ChainPrograms ==
    { <<Fun("g", <<"x">>, <<Ret(ResultE(FALSE, StrLit("bad")))>>), Def("r", start),
        ExprS(ChainExpr(Id("r"), links, Len(links)))>> :
        start \in {ResultE(TRUE, IntLit(1)), ResultE(FALSE, StrLit("e"))},
        links \in SeqsUpTo(Links, MaxChain) }

\* `==` assignments to a Mutable c and a plain x: at top level, in a nested
\* block, in a loop body, in a function, through a Mutable parameter, with a
\* failing and with an effectful right-hand side; the program ends by reading c
\* back
IncC == Assign("c", Infix("+", Id("c"), IntLit(1)))
Assignments ==
    { ExprS(Assign("c", IntLit(5))), ExprS(IncC),
      ExprS(If(BoolLit(TRUE), <<ExprS(Assign("c", IntLit(5)))>>)),
      For("i", OneTwo, <<ExprS(Assign("c", Infix("+", Id("c"), Id("i"))))>>),
      ExprS(Call(Id("bump"), <<>>)),
      ExprS(Assign("c", Id("nope"))),
      ExprS(Assign("x", IntLit(5))),
      ExprS(Assign("x", Id("nope"))),
      ExprS(Assign("x", Assign("c", IntLit(9)))),
      ExprS(Call(Id("set"), <<Id("c")>>)),
      ExprS(Call(Id("set"), <<Id("x")>>)) }
AssignPrograms ==
    { <<Def("c", MutableE(IntLit(0))), Def("x", IntLit(0)),
        Fun("bump", <<>>, <<ExprS(IncC)>>),
        FunT("set", <<"p">>, <<Ann("Mutable", <<Ann("Integer", <<>>)>>)>>, NoNode,
             <<ExprS(Assign("p", IntLit(7)))>>)>> \o as \o <<ExprS(Id("c"))>> :
        as \in SeqsUpTo(Assignments, MaxAssign) }

\* a function f(p) or an extension method m of User with a declared return
\* type and returns in its body, directly and nested in if and for blocks
ReturnTypes ==
    { NoNode, Ann("Integer", <<>>), Ann("String", <<>>),
      Ann("Mutable", <<Ann("Integer", <<>>)>>) }
BodyAtoms ==
    { Ret(IntLit(1)), Ret(StrLit("s")), Ret(Id("p")), Ret(MutableE(IntLit(0))),
      ExprS(If(BoolLit(TRUE), <<Ret(StrLit("s"))>>)),
      For("i", OneTwo, <<Ret(StrLit("s"))>>) }
FunBodies == {<<>>} \cup SeqsUpTo(BodyAtoms, MaxBodyLen)
FunPrograms ==
    { <<FunT("f", <<"p">>, <<NoNode>>, rt, b), ExprS(Call(Id("f"), <<IntLit(3)>>))>> :
        rt \in ReturnTypes, b \in FunBodies }
    \cup { <<UserStruct, Extend("User", <<FunT("m", <<"p">>, <<NoNode>>, rt, b)>>),
             Def("u", UserLit), ExprS(Call(Member(Id("u"), "m"), <<IntLit(3)>>))>> :
             rt \in ReturnTypes, b \in FunBodies }

\* programs that import the modules a, b and utils, at top level and in an
\* if block, and call utils.helper
ImportA == Import(<<"a">>)
HelperCall == Call(Member(Id("utils"), "helper"), <<IntLit(2)>>)
ImportAtoms ==
    { ImportA, Import(<<"b">>), Import(<<"a", "b", "c">>),
      ExprS(If(BoolLit(TRUE), <<ImportA, ImportA>>)),
      Import(<<"utils">>), Def("r", HelperCall) }
ImportPrograms == SeqsUpTo(ImportAtoms, MaxImports)

\* what ParseProgram makes of a file
Parsed(stmts) == [stmts |-> stmts, errors |-> <<>>]
Unparsed == [stmts |-> <<>>, errors |-> <<"no prefix parse function for ) found">>]
Missing == [missing |-> TRUE]

\* helper(n) returns n + 1
UtilsFile ==
    Parsed(<<Fun("helper", <<"n">>, <<Ret(Infix("+", Id("n"), IntLit(1)))>>)>>)

\* the files a.moon, b.moon, a/b/c.moon and utils.moon of the base directory
FileSystems ==
    { [path \in {p \in {"/base/a.moon", "/base/b.moon", "/base/a/b/c.moon",
                         "/base/utils.moon"} :
                     (CASE p = "/base/a.moon" -> fa [] p = "/base/b.moon" -> fb
                        [] p = "/base/a/b/c.moon" -> fc [] OTHER -> fu) # Missing}
         |-> CASE path = "/base/a.moon" -> fa [] path = "/base/b.moon" -> fb
               [] path = "/base/a/b/c.moon" -> fc [] OTHER -> fu] :
        fa \in { Missing, Unparsed, Parsed(<<Def("x", IntLit(1))>>),
                 Parsed(<<Import(<<"b">>)>>), Parsed(<<ImportA>>),
                 Parsed(<<ExprS(Infix("/", IntLit(1), IntLit(0)))>>) },
        fb \in { Missing, Parsed(<<Def("y", IntLit(2))>>), Parsed(<<ImportA>>) },
        fc \in { Missing, Parsed(<<Def("z", IntLit(3))>>) },
        fu \in { Missing, UtilsFile } }

\* loops over 0, 1, ... (for, with range) and 1, 2, ... (while, with a
\* mutable counter) whose body prints the element, continues at 1, breaks
\* at 3 or, from a nested if, at 2, breaks or continues outright, or
\* defines a name
IsAt(v, n) == Infix("is", Id(v), IntLit(n))
LoopAtoms(v) ==
    { ExprS(If(IsAt(v, 1), <<Cont>>)), ExprS(If(IsAt(v, 3), <<Brk>>)),
      ExprS(If(BoolLit(TRUE), <<ExprS(If(IsAt(v, 2), <<Brk>>))>>)),
      ExprS(Call(Id("println"), <<Id(v)>>)), Brk, Cont, Def("t", Id(v)) }
ForPrograms ==
    { <<For("i", Call(Id("range"), <<IntLit(MaxRange)>>), body)>> :
        body \in SeqsUpTo(LoopAtoms("i"), MaxLoopBody) }
WhilePrograms ==
    { <<Def("c", MutableE(IntLit(0))),
        WhileS(Infix("<", Id("c"), IntLit(MaxRange)), Block(<<ExprS(IncC)>> \o body))>> :
        body \in SeqsUpTo(LoopAtoms("c"), MaxLoopBody) }
LoopPrograms == ForPrograms \cup WhilePrograms

\* struct User, a User literal that names any of the fields name, age and email
\* (User declares no email), plain or mutable, and a .with{...} of it
FieldValue(n, fresh) ==
    CASE n = "name" -> StrLit(IF fresh THEN "Al" ELSE "Bob")
      [] n = "age" -> IntLit(IF fresh THEN 17 ELSE 16)
      [] n = "email" -> StrLit("a@b")
FieldSets(fresh) ==
    { [n \in ns |-> FieldValue(n, fresh)] : ns \in SUBSET {"name", "age", "email"} }
StructPrograms ==
    { <<UserStruct, Def("u", lit), Def("w", WithE(Id("u"), updates))>> :
        lit \in UNION { {StructLit("User", f), MutableE(StructLit("User", f))} :
                          f \in FieldSets(FALSE) },
        updates \in FieldSets(TRUE) }

\* `def e = 1 / 0` (an ErrorValue: division by zero) or `def e = 4 / 2`, alone or
\* followed by one more statement, as the program, in an if block, in a loop
\* and as a function body
DefValues == { Infix("/", IntLit(1), IntLit(0)), Infix("/", IntLit(4), IntLit(2)) }
Followers ==
    { ExprS(Id("e")), ExprS(IntLit(7)), Def("y", IntLit(3)),
      ExprS(Call(Id("println"), <<StrLit("after")>>)) }
DefBodies ==
    { <<Def("e", v)>> \o f : v \in DefValues, f \in {<<>>} \cup { <<g>> : g \in Followers } }
DefPrograms ==
    DefBodies
    \cup { <<ExprS(If(BoolLit(TRUE), b))>> : b \in DefBodies }
    \cup { <<For("i", OneTwo, b)>> : b \in DefBodies }
    \cup { <<Fun("f", <<>>, b), CallF>> : b \in DefBodies }

\* def r = <subject>, then a match on r of up to MaxCases cases; the body of
\* case i prints "c<i>" and ends with the name its pattern binds, or with i
\* when the pattern binds none
MaxCases == 2
Subjects ==
    { OptionE(TRUE, IntLit(1)), OptionE(FALSE, NoNode), ResultE(TRUE, IntLit(2)),
      ResultE(FALSE, StrLit("boom")), IntLit(5) }
Patterns ==
    { OptionE(TRUE, Id("x")), OptionE(FALSE, NoNode), ResultE(TRUE, Id("x")),
      ResultE(FALSE, Id("x")), Id("other"), IntLit(5) }
BoundName(pat) ==
    CASE pat.k \in {"OptionExpression", "ResultExpression"} /\ pat.value.k = "Identifier" ->
            pat.value.name
      [] pat.k = "Identifier" -> pat.name
      [] OTHER -> ""
Tag(i) == "c" \o ToString(i)
CaseOf(pat, i) ==
    MatchCase(pat, << ExprS(Call(Id("println"), <<StrLit(Tag(i))>>)),
                      ExprS(IF BoundName(pat) # "" THEN Id(BoundName(pat)) ELSE IntLit(i)) >>)
MatchPrograms ==
    { << Def("r", subject),
         ExprS(Match(Id("r"), [i \in DOMAIN pats |-> CaseOf(pats[i], i)])) >> :
        subject \in Subjects, pats \in SeqsUpTo(Patterns, MaxCases) }

\* calls of f(a, b) with no to MaxArgs arguments, f reading a parameter or
\* the global x; of g through f, which has a local x; and of a closure that mk
\* returns, which reads mk's first parameter (mk gets no second argument)
MaxArgs == 3
ArgSeqs == {<<>>} \cup SeqsUpTo({IntLit(1), StrLit("s")}, MaxArgs)
CallPrograms ==
    { << Def("x", IntLit(1)), Fun("f", <<"a", "b">>, <<Ret(Id(n))>>),
         ExprS(Call(Id("f"), args)) >> : n \in {"a", "b", "x"}, args \in ArgSeqs }
    \cup { << Def("x", IntLit(1)), Fun("g", <<"a">>, <<Ret(Id("x"))>>),
              Fun("f", <<"a">>, <<Def("x", IntLit(2)), Ret(Call(Id("g"), args))>>),
              ExprS(Call(Id("f"), args)) >> : args \in ArgSeqs }
    \cup { << Fun("mk", <<"a", "b">>, <<Ret(Lambda(<<"y">>, Infix("+", Id("a"), Id("y"))))>>),
              Def("h", Call(Id("mk"), <<IntLit(3)>>)),
              ExprS(Call(Id("h"), args)) >> : args \in ArgSeqs }

\* programs that make a Mutable of a Mutable and assign a Mutable to a
\* Mutable variable
MutableAtoms ==
    { ExprS(Assign("c", Id("d"))), ExprS(Assign("d", MutableE(IntLit(2)))),
      ExprS(Assign("c", MutableE(Id("d")))), Def("e", MutableE(MutableE(IntLit(1)))) }
MutablePrograms ==
    { <<Def("c", MutableE(IntLit(0))), Def("d", MutableE(Id("c")))>> \o as :
        as \in {<<>>} \cup SeqsUpTo(MutableAtoms, MaxMutable) }

Programs ==
    BlockPrograms \cup MethodPrograms \cup ChainPrograms \cup AssignPrograms
        \cup FunPrograms \cup ImportPrograms \cup LoopPrograms \cup StructPrograms
        \cup DefPrograms \cup MatchPrograms \cup CallPrograms \cup MutablePrograms

(***************************************************************************)
(* Run, and the evaluation of an imported module, as a state machine.      *)
(***************************************************************************)
\* NewEvaluator, NewEnvironment and RegisterBuiltins
NewEvaluator ==
    [envs |-> <<[store |-> [n \in Builtins |-> BuiltinV(n)], parent |-> 0]>>,
     cells |-> <<>>, structs |-> <<>>, ext |-> <<>>, currentFn |-> "", out |-> <<>>,
     log |-> <<>>, calls |-> <<>>, sends |-> <<>>, chain |-> <<>>, assigns |-> <<>>,
     nact |-> 0,
     files |-> <<>>, cache |-> <<>>, modules |-> <<>>, reads |-> <<>>, parsed |-> <<>>,
     evaled |-> <<>>, depth |-> 0, frames |-> <<>>]

Idle == <<>>

Init ==
    /\ program \in Programs
    /\ pc = 1
    /\ st \in { [NewEvaluator EXCEPT !.files = fs] :
                   fs \in IF program \in ImportPrograms THEN FileSystems ELSE {<<>>} }
    /\ tc = NewTypeChecker
    /\ result = NullV
    /\ phase = "parsed"
    /\ err = Idle /\ hist = Idle /\ heap = Idle /\ made = Idle /\ binds = Idle
    /\ parser = Idle
    /\ lexer = Idle /\ call = Idle

\* Run: checker.Check(program) returns an error, which Run returns as an
\* ErrorValue without evaluating the program
RunCheckFails ==
    /\ phase = "parsed"
    /\ \E c \in {Check(program)} :
           /\ c.panic = "" /\ c.errors # <<>>
           /\ tc' = c
           /\ result' = ErrV("", "", c.errors[1])
    /\ phase' = "rejected"
    /\ UNCHANGED <<call, lexer, parser, program, pc, st, err, hist, heap, made, binds>>

\* Run: checker.Check(program) returns nil and the program is evaluated
RunCheckPasses ==
    /\ phase = "parsed"
    /\ \E c \in {Check(program)} :
           /\ c.panic = "" /\ c.errors = <<>>
           /\ tc' = c
    /\ phase' = "eval"
    /\ UNCHANGED <<call, lexer, parser, program, pc, st, result, err, hist, heap, made, binds>>

\* evalImportStatement: the program of a module is evaluated in a fresh
\* environment with the builtins, and no TypeChecker sees it
ImportEval ==
    /\ phase = "parsed"
    /\ phase' = "eval"
    /\ UNCHANGED <<call, lexer, parser, program, pc, st, result, tc, err, hist, heap, made, binds>>

\* `result = e.Eval(stmt, env)` for the next statement of evalProgram's loop
Step == Eval(program[pc], 1, st)

\* evalProgram: the statement's result is neither a ReturnValue nor an ErrorValue
EvalProgramNext ==
    /\ phase = "eval" /\ pc <= Len(program)
    /\ \E r \in {Step} :
           /\ r.v.t \notin {"Return", "Error"}
           /\ result' = r.v
           /\ st' = Logged(r.s, 0, pc, r.v)
    /\ pc' = pc + 1
    /\ UNCHANGED <<call, lexer, parser, program, phase, tc, err, hist, heap, made, binds>>

\* evalProgram: case *ReturnValue: return result.Value
EvalProgramReturn ==
    /\ phase = "eval" /\ pc <= Len(program)
    /\ \E r \in {Step} :
           /\ r.v.t = "Return"
           /\ result' = r.v.val
           /\ st' = LoggedExit(Logged(r.s, 0, pc, r.v), 0, r.v.val)
    /\ phase' = "returned"
    /\ UNCHANGED <<call, lexer, parser, program, pc, tc, err, hist, heap, made, binds>>

\* evalProgram: case *ErrorValue: return result
EvalProgramError ==
    /\ phase = "eval" /\ pc <= Len(program)
    /\ \E r \in {Step} :
           /\ r.v.t = "Error"
           /\ result' = r.v
           /\ st' = LoggedExit(Logged(r.s, 0, pc, r.v), 0, r.v)
    /\ phase' = "returned"
    /\ UNCHANGED <<call, lexer, parser, program, pc, tc, err, hist, heap, made, binds>>

\* evalProgram: the loop is over, return result
EvalProgramEnd ==
    /\ phase = "eval" /\ pc > Len(program)
    /\ st' = LoggedExit(st, 0, result)
    /\ phase' = "returned"
    /\ UNCHANGED <<call, lexer, parser, program, pc, result, tc, err, hist, heap, made, binds>>

Next ==
    \/ RunCheckFails \/ RunCheckPasses \/ ImportEval
    \/ EvalProgramNext \/ EvalProgramReturn \/ EvalProgramError \/ EvalProgramEnd

Spec == Init /\ [][Next]_vars

(***************************************************************************)
(* EnrichError applied repeatedly to one ErrorValue.                       *)
(***************************************************************************)
\* EnrichError: Method and Input are filled in when they hold the empty
\* string; the ErrorValue is updated in place and returned
EnrichError(e, method, input) ==
    [e EXCEPT !.method = IF @ = "" THEN method ELSE @,
              !.input = IF @ = "" /\ input # NilV
                        THEN String(input, NewEvaluator) ELSE @]

EnrichMethods == {"validate", "save"}
EnrichInputs ==
    { NilV, StrV(""), StrV("Bob"), IntV(16),
      StructV("User", [name |-> StrV("Bob"), age |-> IntV(16)]) }

\* an ErrorValue as the evaluator's `&ErrorValue{Message: ...}` makes it
InitEnrich ==
    /\ err \in {ErrV("", "", m) : m \in {"boom", "Must be 18+"}}
    /\ hist = <<>>
    /\ program = Idle /\ pc = 0 /\ st = Idle /\ tc = Idle /\ result = Idle
    /\ phase = "enrich"
    /\ heap = Idle /\ made = Idle /\ binds = Idle
    /\ parser = Idle
    /\ lexer = Idle /\ call = Idle

\* one call EnrichError(err, method, input)
Enrich ==
    /\ phase = "enrich"
    /\ Len(hist) < MaxEnrich
    /\ \E method \in EnrichMethods, input \in EnrichInputs :
           /\ err' = EnrichError(err, method, input)
           /\ hist' = Append(hist, [method |-> method, input |-> input,
                                    before |-> err, after |-> err'])
    /\ UNCHANGED <<call, lexer, parser, program, pc, st, result, phase, heap, made, binds, tc>>

NextEnrich == Enrich

SpecEnrich == InitEnrich /\ [][NextEnrich]_vars

(***************************************************************************)
(* List append, map insert, map remove and struct `with` on values that    *)
(* live on a heap, as the *ListValue, *MapValue and *StructValue pointers  *)
(* of the evaluator do.                                                    *)
(***************************************************************************)

\* `&T{...}`: a new object on the heap
Alloc(h, obj) == [h |-> Append(h, obj), ref |-> Len(h) + 1]

\* an append that writes into the receiver's own Elements
ListValueAppend_InPlace(h, lv, v) ==
    [h |-> [h EXCEPT ![lv] = ListV(Append(@.es, v))], ref |-> lv]

\* ListValue.Append
ListValueAppend(h, lv, v) ==
    Alloc(h, ListV([i \in 1..(Len(h[lv].es) + 1) |->
                       IF i <= Len(h[lv].es) THEN h[lv].es[i] ELSE v]))

mapInsert(h, m, key, val) ==
    Alloc(h, MapV(Put(h[m].pairs, key, val)))

mapRemove(h, m, key) ==
    Alloc(h, MapV([k \in (DOMAIN h[m].pairs) \ {key} |-> h[m].pairs[k]]))

\* StructValue.With
StructValueWith(h, sv, updates) ==
    Alloc(h, StructV(h[sv].def,
                     [k \in (DOMAIN h[sv].fields) \cup (DOMAIN updates) |->
                         IF k \in DOMAIN updates THEN updates[k] ELSE h[sv].fields[k]]))

Elems == {IntV(1), IntV(2)}
Keys == {"k1", "k2"}
Updates ==
    { [age |-> IntV(17)], [name |-> StrV("Al")],
      [name |-> StrV("Al"), age |-> IntV(17)] }

\* what each bound name of b shows in heap h
Seen(h, b) == [n \in DOMAIN b |-> h[b[n]]]

Literal(h, i) ==
    [op |-> "literal", recv |-> 0, res |-> i, val |-> h[i], arg |-> NilV,
     before |-> <<>>, after |-> <<>>]

\* the operations made so far, the literals of the start aside
Ops == SelectSeq(made, LAMBDA o : o.op # "literal")

\* def l = [1]   def m = {"k1": 1}   def s = User{name: "Bob", age: 16}
InitValues ==
    /\ heap = << ListV(<<IntV(1)>>), MapV([k1 |-> IntV(1)]),
                 StructV("User", [name |-> StrV("Bob"), age |-> IntV(16)]) >>
    /\ made = [i \in 1..3 |-> Literal(heap, i)]
    /\ binds = [l |-> 1, m |-> 2, s |-> 3]
    /\ program = Idle /\ pc = 0 /\ st = Idle /\ tc = Idle /\ result = Idle
    /\ phase = "values"
    /\ err = Idle /\ hist = Idle
    /\ parser = Idle
    /\ lexer = Idle /\ call = Idle

\* `def target = recv.<op>(...)`, with target the receiver's own name or t, has
\* produced r: the result is bound to target
\* and the operation is recorded with what every binding showed before and
\* shows after it
Bound(op, recv, target, arg, r) ==
    /\ heap' = r.h
    /\ binds' = Put(binds, target, r.ref)
    /\ made' = Append(made, [op |-> op, recv |-> binds[recv], res |-> r.ref,
                             val |-> r.h[r.ref], arg |-> arg,
                             before |-> Seen(heap, binds),
                             after |-> Seen(r.h, binds)])
    /\ UNCHANGED <<call, lexer, parser, program, pc, st, result, phase, err, hist, tc>>

\* evalListMethod, case "append": listAppend(list, args[0])
AppendCall ==
    /\ phase = "values" /\ Len(Ops) < MaxOps
    /\ \E recv \in DOMAIN binds : \E target \in {recv, "t"}, v \in Elems :
           /\ heap[binds[recv]].t = "List"
           /\ Bound("append", recv, target, v, ListValueAppend(heap, binds[recv], v))

\* evalMapMethod, case "insert": mapInsert(m, key.Value, args[1])
InsertCall ==
    /\ phase = "values" /\ Len(Ops) < MaxOps
    /\ \E recv \in DOMAIN binds : \E target \in {recv, "t"}, key \in Keys, v \in Elems :
           /\ heap[binds[recv]].t = "Map"
           /\ Bound("insert", recv, target, v, mapInsert(heap, binds[recv], key, v))

\* evalMapMethod, case "remove": mapRemove(m, key.Value)
RemoveCall ==
    /\ phase = "values" /\ Len(Ops) < MaxOps
    /\ \E recv \in DOMAIN binds : \E target \in {recv, "t"}, key \in Keys :
           /\ heap[binds[recv]].t = "Map"
           /\ Bound("remove", recv, target, StrV(key), mapRemove(heap, binds[recv], key))

\* evalWithExpression: structVal.With(updates)
WithCall ==
    /\ phase = "values" /\ Len(Ops) < MaxOps
    /\ \E recv \in DOMAIN binds : \E target \in {recv, "t"}, updates \in Updates :
           /\ heap[binds[recv]].t = "Struct"
           /\ Bound("with", recv, target, NilV, StructValueWith(heap, binds[recv], updates))

NextValues == AppendCall \/ InsertCall \/ RemoveCall \/ WithCall

SpecValues == InitValues /\ [][NextValues]_vars

(***************************************************************************)
(* The parser, on the tokens the Lexer hands it: those of def, return,     *)
(* if/else, while, blocks, identifiers, integer and boolean literals, `/`, *)
(* `is` and `not`.  A parser state ps holds the text, the index of         *)
(* curToken, the errors and whether a Go panic has unwound the parser.     *)
(* Line numbers are left out of the diagnostics.                           *)
(***************************************************************************)

Token(type, lit) == [type |-> type, lit |-> lit]
Kw(type) == Token(type, "")

\* Lexer.NextToken: the i-th token; EOF for ever once the text is over
Tok(ps, i) == IF i <= Len(ps.ts) THEN ps.ts[i] ELSE Kw("EOF")
curToken(ps) == Tok(ps, ps.pos)
peekToken(ps) == Tok(ps, ps.pos + 1)
curTokenIs(ps, tk) == curToken(ps).type = tk
peekTokenIs(ps, tk) == peekToken(ps).type = tk
nextToken(ps) == [ps EXCEPT !.pos = @ + 1]

LOWEST == 1
PREFIX_PREC == 9

\* precedences[type] for the operators of the model's texts, LOWEST for a
\* token that has none
precedences(type) ==
    CASE type = "ASSIGN_MUT" -> 2
      [] type = "OR" -> 3
      [] type = "AND" -> 4
      [] type = "IS" -> 5
      [] type \in {"GT", "LT", "GTE", "LTE"} -> 6
      [] type \in {"PLUS", "MINUS"} -> 7
      [] type \in {"MULTIPLY", "DIVIDE", "MODULO"} -> 8
      [] OTHER -> LOWEST

peekPrecedence(ps) == precedences(peekToken(ps).type)
curPrecedence(ps) == precedences(curToken(ps).type)

\* a parse result: the node (NoNode for nil) and the parser after it
N(n, ps) == [n |-> n, ps |-> ps]

peekError(ps, tk) ==
    [ps EXCEPT !.errors = Append(@, "expected next token to be " \o tk \o ", got "
                                    \o peekToken(ps).type \o " instead")]

\* expectPeek: [ok, ps]
expectPeek(ps, tk) ==
    IF peekTokenIs(ps, tk) THEN [ok |-> TRUE, ps |-> nextToken(ps)]
    ELSE [ok |-> FALSE, ps |-> peekError(ps, tk)]

RECURSIVE skipNewlines(_)
skipNewlines(ps) ==
    IF curTokenIs(ps, "NEWLINE") THEN skipNewlines(nextToken(ps)) ELSE ps

\* a Go panic: the parser is abandoned where it stands
Panic(ps) == N(NoNode, [ps EXCEPT !.panic = TRUE])

\* the parser has panicked, or is in a loop it does not leave
Gone(ps) == ps.panic \/ ps.spin

\* how far curToken is in the text; EOF is as far as it gets
Cur(ps) == IF ps.pos <= Len(ps.ts) THEN ps.pos ELSE Len(ps.ts) + 1

\* the end of a turn of a loop, with the parser at q where the turn began at
\* ps: the loop goes on from q.  The tests of a loop read curToken and
\* peekToken only, so a turn that leaves curToken where it was is followed
\* by the same turn for ever
Turn(ps, q, Loop(_)) ==
    IF Cur(q) > Cur(ps) THEN Loop(q) ELSE N(NoNode, [q EXCEPT !.spin = TRUE])

\* strconv.ParseInt on the literals of the text
ParseInt(lit) == CASE lit = "0" -> 0 [] lit = "1" -> 1 [] lit = "2" -> 2

RECURSIVE parseStatement(_), parseExpression(_, _), parseInfixLoop(_, _),
          parseBlockFrom(_, _), parseMapLiteralFrom(_, _), parseTypeAnnotation(_),
          parseTypeParams(_, _)

\* parseBlockStatement: curToken is `{`
parseBlockStatement(ps) == parseBlockFrom(skipNewlines(nextToken(ps)), <<>>)

\* the loop of parseBlockStatement
parseBlockFrom(ps, stmts) ==
    IF curTokenIs(ps, "RBRACE") \/ curTokenIs(ps, "EOF") THEN N(Block(stmts), ps)
    ELSE With(parseStatement(ps), LAMBDA r :
             IF Gone(r.ps) THEN r
             ELSE Turn(ps, skipNewlines(nextToken(r.ps)),
                       LAMBDA q : parseBlockFrom(q, Append(stmts, r.n))))

\* parseIfExpression: nil when `{` does not follow the condition or `else`
parseIfExpression(ps) ==
    With(parseExpression(nextToken(ps), LOWEST), LAMBDA c :
        IF Gone(c.ps) THEN c
        ELSE With(expectPeek(c.ps, "LBRACE"), LAMBDA e :
            IF ~e.ok THEN N(NoNode, e.ps)
            ELSE With(parseBlockStatement(e.ps), LAMBDA b :
                IF Gone(b.ps) THEN b
                ELSE IF ~peekTokenIs(b.ps, "ELSE") THEN N(If(c.n, b.n.stmts), b.ps)
                ELSE With(expectPeek(nextToken(b.ps), "LBRACE"), LAMBDA f :
                    IF ~f.ok THEN N(NoNode, f.ps)
                    ELSE With(parseBlockStatement(f.ps), LAMBDA a :
                        IF Gone(a.ps) THEN a
                        ELSE N(IfElse(c.n, b.n.stmts, a.n.stmts), a.ps))))))

\* parseIfStatement: `expr.(*IfExpression)` panics when expr is nil
parseIfStatement(ps) ==
    With(parseIfExpression(ps), LAMBDA r :
        IF Gone(r.ps) THEN r
        ELSE IF r.n = NoNode THEN Panic(r.ps)
        ELSE N(ExprS(r.n), r.ps))

\* a parseTypeParams that goes round again where the loop breaks
parseTypeParams_NoBreak(ps, params) ==
    IF curTokenIs(ps, "RBRACKET") THEN N(params, ps)
    ELSE With(parseTypeAnnotation(ps), LAMBDA param :
             IF Gone(param.ps) THEN param
             ELSE IF peekTokenIs(param.ps, "COMMA")
             THEN Turn(ps, nextToken(nextToken(param.ps)),
                       LAMBDA q : parseTypeParams(q, Append(params, param.n)))
             ELSE IF peekTokenIs(param.ps, "RBRACKET")
             THEN Turn(ps, nextToken(param.ps),
                       LAMBDA q : parseTypeParams(q, Append(params, param.n)))
             ELSE Turn(ps, param.ps,
                       LAMBDA q : parseTypeParams(q, Append(params, param.n))))

\* the loop of parseTypeAnnotation: [n, ps] with n the TypeParams
parseTypeParams(ps, params) ==
    IF curTokenIs(ps, "RBRACKET") THEN N(params, ps)
    ELSE With(parseTypeAnnotation(ps), LAMBDA param :
             IF Gone(param.ps) THEN param
             ELSE IF peekTokenIs(param.ps, "COMMA")
             THEN Turn(ps, nextToken(nextToken(param.ps)),
                       LAMBDA q : parseTypeParams(q, Append(params, param.n)))
             ELSE IF peekTokenIs(param.ps, "RBRACKET")
             THEN Turn(ps, nextToken(param.ps),
                       LAMBDA q : parseTypeParams(q, Append(params, param.n)))
             ELSE N(Append(params, param.n), param.ps))

\* parseTypeAnnotation: curToken is the name of the type
parseTypeAnnotation(ps) ==
    IF peekTokenIs(ps, "LBRACKET")
    THEN With(parseTypeParams(nextToken(nextToken(ps)), <<>>), LAMBDA r :
             IF Gone(r.ps) THEN r ELSE N(Ann(curToken(ps).lit, r.n), r.ps))
    ELSE N(Ann(curToken(ps).lit, <<>>), ps)

\* parseDefStatement
parseDefStatement(ps) ==
    With(expectPeek(ps, "IDENT"), LAMBDA i :
        IF ~i.ok THEN N(NoNode, i.ps)
        ELSE With(IF peekTokenIs(i.ps, "COLON")
                  THEN parseTypeAnnotation(nextToken(nextToken(i.ps)))
                  ELSE N(NoNode, i.ps), LAMBDA hint :
            IF Gone(hint.ps) THEN hint
            ELSE With(expectPeek(hint.ps, "ASSIGN"), LAMBDA a :
                IF ~a.ok THEN N(NoNode, a.ps)
                ELSE With(parseExpression(nextToken(a.ps), LOWEST), LAMBDA v :
                    IF Gone(v.ps) THEN v
                    ELSE N(DefT(curToken(i.ps).lit, hint.n, v.n), v.ps)))))

parseReturnStatement(ps) ==
    With(nextToken(ps), LAMBDA q :
        IF curToken(q).type \in {"NEWLINE", "RBRACE", "EOF"} THEN N(Ret(NoNode), q)
        ELSE With(parseExpression(q, LOWEST), LAMBDA v :
                 IF Gone(v.ps) THEN v ELSE N(Ret(v.n), v.ps)))

parseWhileStatement(ps) ==
    With(parseExpression(nextToken(ps), LOWEST), LAMBDA c :
        IF Gone(c.ps) THEN c
        ELSE With(expectPeek(c.ps, "LBRACE"), LAMBDA e :
            IF ~e.ok THEN N(NoNode, e.ps)
            ELSE With(parseBlockStatement(e.ps), LAMBDA b :
                IF Gone(b.ps) THEN b ELSE N(WhileS(c.n, b.n), b.ps))))

\* the loop of parseMapLiteralBody
parseMapLiteralFrom(ps, pairs) ==
    IF curTokenIs(ps, "RBRACE") \/ curTokenIs(ps, "EOF") THEN N(MapLitOf(pairs), ps)
    ELSE With(parseExpression(ps, LOWEST), LAMBDA key :
        IF Gone(key.ps) THEN key
        ELSE With(expectPeek(key.ps, "COLON"), LAMBDA c :
            IF ~c.ok THEN N(NoNode, c.ps)
            ELSE With(parseExpression(nextToken(c.ps), LOWEST), LAMBDA v :
                IF Gone(v.ps) THEN v
                ELSE With(nextToken(v.ps), LAMBDA n :
                    Turn(ps, skipNewlines(IF curToken(n).type \in {"COMMA", "NEWLINE"}
                                          THEN nextToken(n) ELSE n),
                         LAMBDA q : parseMapLiteralFrom(q, Append(pairs, <<key.n, v.n>>)))))))

parseMapLiteralBody(ps) == parseMapLiteralFrom(ps, <<>>)

\* parseBraceExpression, without the lambda forms (no `->` and no `,`)
parseBraceExpression(ps) ==
    With(skipNewlines(nextToken(ps)), LAMBDA q :
        IF curTokenIs(q, "RBRACE") THEN N(MapLit, q) ELSE parseMapLiteralBody(q))

\* parseIdentifier; maybeParseStructLiteral leaves a name that does not start
\* with a capital alone, and the names of the text do not
parseIdentifier(ps) == N(Id(curToken(ps).lit), ps)

parsePrefixExpression(ps) ==
    With(parseExpression(nextToken(ps), PREFIX_PREC), LAMBDA r :
        IF Gone(r.ps) THEN r ELSE N(Prefix(curToken(ps).lit, r.n), r.ps))

\* a parseInfixExpression that parses its right operand at LOWEST
parseInfixExpression_Lowest(ps, left) ==
    With(parseExpression(nextToken(ps), LOWEST), LAMBDA r :
        IF Gone(r.ps) THEN r ELSE N(Infix(curToken(ps).lit, left, r.n), r.ps))

parseInfixExpression(ps, left) ==
    With(parseExpression(nextToken(ps), curPrecedence(ps)), LAMBDA r :
        IF Gone(r.ps) THEN r ELSE N(Infix(curToken(ps).lit, left, r.n), r.ps))

parseAssignmentExpression(ps, left) ==
    IF left.k # "Identifier"
    THEN N(NoNode, [ps EXCEPT !.errors = Append(@, "left side of == must be an identifier")])
    ELSE With(parseExpression(nextToken(ps), LOWEST), LAMBDA r :
             IF Gone(r.ps) THEN r ELSE N(Assign(left.name, r.n), r.ps))

\* the prefix function of curToken
parsePrefix(ps) ==
    CASE curTokenIs(ps, "IDENT") -> parseIdentifier(ps)
      [] curTokenIs(ps, "INTEGER") -> N(IntLit(ParseInt(curToken(ps).lit)), ps)
      [] curToken(ps).type \in {"TRUE", "FALSE"} -> N(BoolLit(curTokenIs(ps, "TRUE")), ps)
      [] curToken(ps).type \in {"NOT", "MINUS"} -> parsePrefixExpression(ps)
      [] curTokenIs(ps, "IF") -> parseIfExpression(ps)
      [] curTokenIs(ps, "LBRACE") -> parseBraceExpression(ps)

\* the loop of parseExpression: the infix function of peekToken
parseInfixLoop(left, precedence) ==
    IF Gone(left.ps) THEN left
    ELSE IF peekToken(left.ps).type \notin {"NEWLINE", "EOF"}
            /\ precedence < peekPrecedence(left.ps)
    THEN With(IF peekTokenIs(left.ps, "ASSIGN_MUT")
              THEN parseAssignmentExpression(nextToken(left.ps), left.n)
              ELSE parseInfixExpression(nextToken(left.ps), left.n), LAMBDA r :
             IF Gone(r.ps) THEN r
             ELSE Turn(left.ps, r.ps, LAMBDA q : parseInfixLoop(r, precedence)))
    ELSE left

parseExpression(ps, precedence) ==
    IF curToken(ps).type \notin {"IDENT", "INTEGER", "TRUE", "FALSE", "NOT", "MINUS", "IF",
                                 "LBRACE"}
    THEN N(NoNode, [ps EXCEPT !.errors =
                        Append(@, "no prefix parse function for " \o curToken(ps).type
                                  \o " found")])
    ELSE With(parsePrefix(ps), LAMBDA left : parseInfixLoop(left, precedence))

parseExpressionStatement(ps) ==
    With(parseExpression(ps, LOWEST), LAMBDA r :
        IF Gone(r.ps) THEN r ELSE N(ExprS(r.n), r.ps))

parseStatement(ps) ==
    CASE curTokenIs(ps, "DEF") -> parseDefStatement(ps)
      [] curTokenIs(ps, "RETURN") -> parseReturnStatement(ps)
      [] curTokenIs(ps, "IF") -> parseIfStatement(ps)
      [] curTokenIs(ps, "WHILE") -> parseWhileStatement(ps)
      [] OTHER -> parseExpressionStatement(ps)

\* pieces of source text, as tokens
X == Token("IDENT", "x")
Fragments ==
    { <<Kw("DEF"), X, Kw("ASSIGN")>>, <<Kw("DEF"), X>>, <<Kw("IF"), X>>, <<Kw("IF")>>,
      <<Kw("WHILE"), X>>, <<Kw("LBRACE")>>, <<Kw("RBRACE")>>, <<Kw("ELSE")>>,
      <<Kw("RETURN")>>, <<Token("INTEGER", "1")>>, <<Token("INTEGER", "0")>>, <<X>>,
      <<Token("DIVIDE", "/")>>, <<Kw("NEWLINE")>> }

RECURSIVE Concat(_)
Concat(fs) == IF fs = <<>> THEN <<>> ELSE Head(fs) \o Concat(Tail(fs))

\* the literals compared by `is`
IsLiterals ==
    { Token("INTEGER", "0"), Token("INTEGER", "1"), Token("INTEGER", "2"),
      Token("TRUE", "true"), Token("FALSE", "false") }

\* `a is b` and `a is not b`
IsTexts ==
    {<<a, Token("IS", "is"), b>> : a, b \in IsLiterals}
        \cup {<<a, Token("IS", "is"), Token("NOT", "not"), b>> : a, b \in IsLiterals}

Texts == {Concat(fs) : fs \in SeqsUpTo(Fragments, MaxFrags)} \cup IsTexts

\* `a p b q c` for every two binary operators p and q, and `- a q b` and
\* `not a q b`
BinaryOperators ==
    { Token("ASSIGN_MUT", "=="), Token("OR", "or"), Token("AND", "and"), Token("IS", "is"),
      Token("GT", ">"), Token("LT", "<"), Token("GTE", ">="), Token("LTE", "<="),
      Token("PLUS", "+"), Token("MINUS", "-"), Token("MULTIPLY", "*"),
      Token("DIVIDE", "/"), Token("MODULO", "%") }
PrecedenceTexts ==
    { << Token("IDENT", "a"), p, Token("IDENT", "b"), q, Token("IDENT", "c") >> :
        p, q \in BinaryOperators }
    \cup { << pre, Token("IDENT", "a"), q, Token("IDENT", "b") >> :
              pre \in {Token("MINUS", "-"), Token("NOT", "not")}, q \in BinaryOperators }

\* `def x : <type tokens>`, alone and followed by `= 1`
AnnotationTexts ==
    { <<Kw("DEF"), X, Token("COLON", ":")>> \o body \o value :
        body \in {<<>>} \cup SeqsUpTo({ Token("IDENT", "T"), Token("LBRACKET", "["),
                                        Token("RBRACKET", "]"), Token("COMMA", ",") },
                                      MaxAnnotation),
        value \in { <<>>, <<Kw("ASSIGN"), Token("INTEGER", "1")>> } }

\* `{` and what may follow it in a map literal
MapTexts ==
    { <<Kw("LBRACE")>> \o body :
        body \in SeqsUpTo({ X, Token("COLON", ":"), Token("COMMA", ","), Kw("NEWLINE"),
                            Kw("RBRACE"), Token("INTEGER", "1") }, MaxMapBody) }

\* NewParser on the Lexer of a text
NewParser(ts) ==
    [ts |-> ts, pos |-> 1, errors |-> <<>>, panic |-> FALSE, spin |-> FALSE,
     stmts |-> <<>>, status |-> "parsing"]

InitParse ==
    /\ parser \in {NewParser(ts) :
                       ts \in Texts \cup PrecedenceTexts \cup AnnotationTexts \cup MapTexts}
    /\ lexer = Idle /\ call = Idle
    /\ program = Idle /\ pc = 0 /\ st = Idle /\ tc = Idle /\ result = Idle
    /\ phase = "parse"
    /\ err = Idle /\ hist = Idle /\ heap = Idle /\ made = Idle /\ binds = Idle

\* the parser as a parser state
PS == [ts |-> parser.ts, pos |-> parser.pos, errors |-> parser.errors,
       panic |-> parser.panic, spin |-> parser.spin]

\* ParseProgram: one turn of the loop; the statement is appended (a nil
\* *DefStatement or *WhileStatement is a non-nil Statement)
ParseProgramStep ==
    /\ phase = "parse" /\ parser.status = "parsing" /\ ~parser.spin
    /\ ~curTokenIs(skipNewlines(PS), "EOF")
    /\ \E r \in {parseStatement(skipNewlines(PS))} :
           /\ ~r.ps.panic
           /\ parser' = IF r.ps.spin
                         THEN [parser EXCEPT !.pos = r.ps.pos, !.errors = r.ps.errors,
                                             !.spin = TRUE]
                         ELSE [parser EXCEPT !.pos = r.ps.pos + 1, !.errors = r.ps.errors,
                                             !.stmts = Append(@, r.n)]
    /\ UNCHANGED <<call, lexer, program, pc, st, result, phase, err, hist, heap, made, binds, tc>>

\* ParseProgram: parseStatement panics and ParseProgram does not return
ParseProgramPanic ==
    /\ phase = "parse" /\ parser.status = "parsing" /\ ~parser.spin
    /\ ~curTokenIs(skipNewlines(PS), "EOF")
    /\ \E r \in {parseStatement(skipNewlines(PS))} :
           /\ r.ps.panic
           /\ parser' = [parser EXCEPT !.pos = r.ps.pos, !.errors = r.ps.errors,
                                       !.panic = TRUE, !.status = "panicked"]
    /\ UNCHANGED <<call, lexer, program, pc, st, result, phase, err, hist, heap, made, binds, tc>>

\* ParseProgram: curToken is EOF, the Program is returned
ParseProgramReturn ==
    /\ phase = "parse" /\ parser.status = "parsing" /\ ~parser.spin
    /\ curTokenIs(skipNewlines(PS), "EOF")
    /\ parser' = [parser EXCEPT !.pos = skipNewlines(PS).pos, !.status = "returned"]
    /\ UNCHANGED <<call, lexer, program, pc, st, result, phase, err, hist, heap, made, binds, tc>>

NextParse == ParseProgramStep \/ ParseProgramPanic \/ ParseProgramReturn

SpecParse == InitParse /\ [][NextParse]_vars

\* ParseProgram runs on: the one goroutine of the interpreter takes the step
\* it can take
SpecParseFair == SpecParse /\ WF_vars(NextParse)

(***************************************************************************)
(* Run from the source text on: parse, then check, then evaluate.  A text  *)
(* with a `while` is left out: over these tokens a loop that starts never  *)
(* ends, and Run does not return.                                          *)
(***************************************************************************)
ParseErrorsOccurred == ErrV("", "", "Parse errors occurred")

RunTexts == {ts \in Texts : \A i \in 1..Len(ts) : ts[i].type # "WHILE"}

InitRun ==
    /\ parser \in {NewParser(ts) : ts \in RunTexts}
    /\ lexer = Idle /\ call = Idle
    /\ program = Idle /\ pc = 0 /\ st = Idle /\ tc = Idle /\ result = Idle
    /\ phase = "parse"
    /\ err = Idle /\ hist = Idle /\ heap = Idle /\ made = Idle /\ binds = Idle

\* Run that goes on to the checker with the Program of a parse with errors
RunParseErrors_GoesOn ==
    /\ phase = "parse" /\ parser.status = "returned"
    /\ parser.errors # <<>>
    /\ program' = parser.stmts
    /\ pc' = 1 /\ tc' = NewTypeChecker /\ st' = NewEvaluator /\ result' = NullV
    /\ phase' = "parsed"
    /\ UNCHANGED <<call, lexer, parser, err, hist, heap, made, binds>>

\* Run: len(parser.Errors()) > 0, Run returns an ErrorValue
RunParseErrors ==
    /\ phase = "parse" /\ parser.status = "returned"
    /\ parser.errors # <<>>
    /\ result' = ParseErrorsOccurred
    /\ phase' = "rejected"
    /\ UNCHANGED <<call, lexer, parser, program, pc, st, tc, err, hist, heap, made, binds>>

\* Run: the parse left no error; NewTypeChecker, and NewEnvironment,
\* RegisterBuiltins and NewEvaluator, which touch neither the program nor
\* the checker
RunParsed ==
    /\ phase = "parse" /\ parser.status = "returned"
    /\ parser.errors = <<>>
    /\ program' = parser.stmts
    /\ pc' = 1 /\ tc' = NewTypeChecker /\ st' = NewEvaluator /\ result' = NullV
    /\ phase' = "parsed"
    /\ UNCHANGED <<call, lexer, parser, err, hist, heap, made, binds>>

NextRun ==
    \/ ParseProgramStep \/ ParseProgramPanic \/ ParseProgramReturn
    \/ RunParseErrors \/ RunParsed
    \/ RunCheckFails \/ RunCheckPasses
    \/ EvalProgramNext \/ EvalProgramReturn \/ EvalProgramError \/ EvalProgramEnd

SpecRun == InitRun /\ [][NextRun]_vars

(***************************************************************************)
(* Properties of block and program evaluation.                             *)
(***************************************************************************)
Signals == {"Return", "Break", "Continue", "Error"}

\* C1: once a statement of a block or of the program yields a Return, Break,
\* Continue or ErrorValue result, no later statement of that activation is
\* evaluated and the activation yields that same result (the program, activation
\* 0, may yield the value a Return carries).
C1_ShortCircuit ==
    \A p \in 1..Len(st.log) :
        (st.log[p].kind = "stmt" /\ st.log[p].v.t \in Signals) =>
            \A q \in (p + 1)..Len(st.log) :
                st.log[q].act = st.log[p].act =>
                    /\ st.log[q].kind = "exit"
                    /\ \/ st.log[q].v = st.log[p].v
                       \/ st.log[q].act = 0 /\ st.log[q].v = unwrapReturnValue(st.log[p].v)

\* C2: the value of a function application or of an extension-method call is
\* never a ReturnValue, BreakValue or ContinueValue, and a body that ends in a
\* Return yields the returned value.
C2_NoSignalAcrossCall ==
    \A i \in 1..Len(st.calls) :
        /\ st.calls[i].v.t \notin {"Return", "Break", "Continue"}
        /\ st.calls[i].raw.t = "Return" => st.calls[i].v = st.calls[i].raw.val

\* C3: an extension-method call whose method returns Error(msg) has the value
\* ErrorValue{method: the method's name, input: String() of the receiver,
\* message: msg}.
C3_MethodErrorEnriched ==
    \A i \in 1..Len(st.calls) :
        LET c == st.calls[i]
            ret == unwrapReturnValue(c.raw)
        IN (c.kind = "method" /\ ret.t = "Result" /\ ~ret.isOk) =>
               c.v = ErrV(c.fn.name, String(c.recv, st), ret.err.message)

\* C5: a method call that reaches the extension registry looks the method up
\* under the type name of the receiver unwrapped through Mutable and Ok, and
\* a receiver that is an Error Result yields that error with no method run.
C5_DispatchUnwrapsReceiver ==
    \A i \in 1..Len(st.sends) :
        LET d == st.sends[i]
            u == UnwrapValue(d.recv, st)
            x == IF u.t = "Result" /\ u.isOk THEN u.val ELSE u
        IN IF u.t = "Result" /\ ~u.isOk
           THEN /\ ~d.dispatched
                /\ d.v \in {u, ErrV(u.err.method, u.err.input, u.err.message)}
           ELSE (TypeOf(x) \in DOMAIN st.ext /\ d.method \in DOMAIN st.ext[TypeOf(x)])
                    => d.dispatched

\* C6: for every r.then(f) and r.map(f) with f a function: an Error r is
\* returned as it is and no function is applied; for Ok(x), f is applied to x
\* once, then yields f(x) itself when f(x) is a Result and Ok(f(x)) otherwise,
\* and map yields Ok(f(x)).
C6_ThenMap ==
    \A i \in 1..Len(st.chain) :
        LET c == st.chain[i]
        IN (c.method \in {"then", "map"} /\ Len(c.args) = 1 /\ c.args[1].t = "Function") =>
               IF ~c.r.isOk
               THEN c.v = c.r /\ c.calls1 = c.calls0
               ELSE /\ c.calls1 = c.calls0 + 1
                    /\ LET a == st.calls[c.calls1]
                       IN /\ a.fn = c.args[1]
                          /\ a.args = <<c.r.val>>
                          /\ c.v = IF c.method = "then" /\ a.v.t = "Result"
                                   THEN a.v ELSE OkV(a.v)

\* a chain of three calls on an Ok receiver whose first closure fails: the
\* two later calls found an Error receiver
C6_Witness ==
    /\ phase = "returned"
    /\ Len(st.chain) = 3
    /\ st.chain[1].r.isOk /\ ~st.chain[1].v.isOk
    /\ st.chain[2].r = st.chain[1].v /\ st.chain[3].r = st.chain[2].v
    /\ Len(st.calls) = 1

(***************************************************************************)
(* Properties of `name == expr`.                                           *)
(***************************************************************************)
NotMutable(name) == ErrV("", "", name \o " is not mutable")

\* the entries of st.assigns that stored into cell ref
StoresTo(ref) ==
    { i \in 1..Len(st.assigns) :
        /\ ~isError(st.assigns[i].val)
        /\ st.assigns[i].existing.ok
        /\ st.assigns[i].existing.val = MutV(ref) }

\* a finished program whose last statement read a Mutable name: the cell holds
\* the value of the last assignment stored into it
ReadsBackLast ==
    (phase = "returned" /\ pc > Len(program) /\ result.t = "Mutable"
        /\ StoresTo(result.ref) # {}) =>
        LET last == CHOOSE i \in StoresTo(result.ref) :
                        \A j \in StoresTo(result.ref) : j <= i
        IN st.cells[result.ref] =
               UnwrapValue(st.assigns[last].val, [cells |-> st.assigns[last].cells0])

\* the evaluator's three outcomes of `name == expr` for a bound name
AssignOutcome(a) ==
    IF isError(a.val)
    THEN a.v = a.val /\ a.cells1 = a.cells0 /\ a.envs1 = a.envs0
    ELSE IF a.existing.val.t = "Mutable"
    THEN LET u == UnwrapValue(a.val, [cells |-> a.cells0])
         IN /\ a.v = u
            /\ a.cells1 = [a.cells0 EXCEPT ![a.existing.val.ref] = u]
            /\ a.envs1 = a.envs0
    ELSE a.v = NotMutable(a.name) /\ a.cells1 = a.cells0 /\ a.envs1 = a.envs0

C9_MutableReturnRejected ==
    \A i \in 1..Len(tc.funs) :
        tc.funs[i].ret.t = "Mutable" => tc.errors # <<>>

\* C10: for every `return e` checked inside a function with a declared return
\* type to which the type of e is not assignable, the checker has recorded
\* "cannot return <type of e> from function expecting <declared type>".
C10_EveryReturnChecked ==
    \A i \in 1..Len(tc.returns) :
        LET r == tc.returns[i]
        IN (r.expected.t # "nil" /\ ~isAssignable(r.expected, r.actual)) =>
               \E j \in 1..Len(tc.errors) :
                   tc.errors[j] = "cannot return " \o TypeString(r.actual)
                                  \o " from function expecting "
                                  \o TypeString(r.expected)

(***************************************************************************)
(* Properties of EnrichError.                                              *)
(***************************************************************************)
\* C4: after any sequence of EnrichError calls on one ErrorValue, its method
\* is the one the first call supplied, its input is the String() of the value
\* the first call supplied, and no call changed the message.
C4_FirstEnrichmentWins ==
    (hist # <<>> /\ hist[1].input # NilV) =>
        /\ err.method = hist[1].method
        /\ err.input = String(hist[1].input, NewEvaluator)
        /\ \A i \in 1..Len(hist) : hist[i].after.message = hist[i].before.message

C11_ParserNeverPanics ==
    phase = "parse" => parser.status \in {"parsing", "returned"}

(***************************************************************************)
(* Properties of Run.                                                      *)
(***************************************************************************)
\* what an Evaluator that has executed nothing looks like
NothingExecuted == st = Idle \/ (st = NewEvaluator /\ pc = 1)

\* C12: Run goes parse, check, evaluate.  Once ParseProgram has returned
\* with a diagnostic, no TypeChecker and no Evaluator ever exist and Run
\* returns the ErrorValue "Parse errors occurred"; once Check has returned
\* an error, Run returns an ErrorValue and no statement has been executed;
\* and a program under evaluation has parsed and checked without error.
C12_StageOrder ==
    /\ (parser.status = "returned" /\ parser.errors # <<>>) =>
           /\ phase \in {"parse", "rejected"}
           /\ tc = Idle /\ st = Idle /\ program = Idle
           /\ phase = "rejected" => result = ParseErrorsOccurred
    /\ (tc # Idle /\ tc.errors # <<>>) =>
           /\ phase = "rejected"
           /\ isError(result)
           /\ NothingExecuted
    /\ phase \in {"eval", "returned"} =>
           /\ parser.status = "returned" /\ parser.errors = <<>>
           /\ tc # Idle /\ tc.errors = <<>>
    /\ phase = "rejected" => NothingExecuted

\* a program with statements was refused for its parse errors
C12_Witness ==
    /\ phase = "rejected" /\ parser.errors # <<>> /\ Len(parser.stmts) > 0
    /\ result = ParseErrorsOccurred /\ tc = Idle /\ st = Idle

(***************************************************************************)
(* Properties of modules.                                                  *)
(***************************************************************************)
Occurrences(seq, x) == Cardinality({i \in 1..Len(seq) : seq[i] = x})

\* C13: within one Evaluator no module is parsed more than once and no
\* module's program is evaluated more than once, however many imports name
\* it, in the main program or in modules, the modules that import each
\* other included.
C13_ModuleOnce ==
    \A m \in {"a", "b", "utils"} :
        Occurrences(st.parsed, m) <= 1 /\ Occurrences(st.evaled, m) <= 1

\* C14: an import with the path a.b.c reads the file <base>/a/b/c.moon: the
\* first file read for a program that begins with an import is the base
\* directory joined with the path's segments, ".moon" appended.
C14_DottedPath ==
    (program[1].k = "ImportStatement" /\ (pc > 1 \/ phase = "returned")) =>
        /\ st.reads # <<>>
        /\ st.reads[1] = basePath \o "/" \o Join(program[1].path, 1) \o ".moon"

\* the program `import utils` followed by `def r = utils.helper(2)`, with
\* utils.moon in the base directory
CallsHelper ==
    /\ program = <<Import(<<"utils">>), Def("r", HelperCall)>>
    /\ "/base/utils.moon" \in DOMAIN st.files

\* C15: after `import utils`, utils.helper(2) passes type checking and
\* evaluates to what helper returns for 2, which is 3.
C15_ModuleCall ==
    CallsHelper =>
        /\ phase # "rejected"
        /\ phase = "returned" => result = IntV(3)

(***************************************************************************)
(* Properties of loops.  What a loop is to do is computed on the body, one *)
(* statement at a time, for the element v.                                 *)
(***************************************************************************)
Holds(cond, v) == IF cond.k = "BooleanLiteral" THEN cond.b ELSE v = cond.right.n

RECURSIVE Effect(_, _)
Effect(stmt, v) ==
    CASE stmt.k = "BreakStatement" -> "break"
      [] stmt.k = "ContinueStatement" -> "continue"
      [] stmt.k = "DefStatement" -> "none"
      [] stmt.expr.k = "AssignmentExpression" -> "none"
      [] stmt.expr.k = "CallExpression" -> "print"
      [] stmt.expr.k = "IfExpression" ->
            IF Holds(stmt.expr.cond, v) THEN Effect(stmt.expr.cons.stmts[1], v) ELSE "none"

\* the body from statement j on: what it prints and whether it breaks
RECURSIVE Visit(_, _, _, _)
Visit(body, j, v, out) ==
    IF j > Len(body) THEN [out |-> out, stop |-> FALSE]
    ELSE CASE Effect(body[j], v) = "break" -> [out |-> out, stop |-> TRUE]
           [] Effect(body[j], v) = "continue" -> [out |-> out, stop |-> FALSE]
           [] Effect(body[j], v) = "print" -> Visit(body, j + 1, v, Append(out, v))
           [] OTHER -> Visit(body, j + 1, v, out)

\* the elements first, first + 1, ... up to last, in order, until a break
RECURSIVE Visits(_, _, _, _)
Visits(body, first, last, out) ==
    IF first > last THEN out
    ELSE With(Visit(body, 1, first, out), LAMBDA r :
             IF r.stop THEN r.out ELSE Visits(body, first + 1, last, r.out))

\* the program is one of ForPrograms, or one of WhilePrograms
IsForProgram ==
    Len(program) = 1 /\ program[1].k = "ForStatement"
        /\ program[1].iter.k = "CallExpression"
IsWhileProgram == Len(program) = 2 /\ program[2].k = "WhileStatement"

\* what the loop of the program is to print
LoopOutput ==
    IF IsForProgram THEN Visits(program[1].body.stmts, 0, MaxRange - 1, <<>>)
    ELSE Visits(program[2].body.stmts, 1, MaxRange, <<>>)

\* C16: a for loop runs its body once per element in order, in a child
\* environment of its own with the loop variable bound; a break, also from a
\* nested if, ends the loop with no later element visited and the loop
\* yields Null; a continue goes on with the next element; a while loop does
\* the same with break and continue.
C16_LoopControl ==
    ((IsForProgram \/ IsWhileProgram) /\ phase = "returned") =>
        /\ st.out = [k \in 1..Len(LoopOutput) |-> <<String(IntV(LoopOutput[k]), st)>>]
        /\ result = NullV
        /\ DOMAIN st.envs[1].store \subseteq Builtins \cup {"c"}

\* the loop of the README, shortened: continue at 1, break at 3, over
\* 0, 1, 2, 3, prints 0 and 2
C16_Witness ==
    /\ phase = "returned"
    /\ program = <<For("i", Call(Id("range"), <<IntLit(MaxRange)>>),
                       <<ExprS(If(IsAt("i", 1), <<Cont>>)),
                         ExprS(If(IsAt("i", 3), <<Brk>>)),
                         ExprS(Call(Id("println"), <<Id("i")>>))>>)>>
    /\ st.out = <<<<"0">>, <<"2">>>>
    /\ result = NullV

(***************************************************************************)
(* Properties of `is` and `is not`.                                        *)
(***************************************************************************)
\* the literal a token stands for
LiteralOf(tok) == parsePrefix(NewParser(<<tok>>)).n

\* what `a is b` evaluates to
IsValue(a, b) == Eval(Infix("is", LiteralOf(a), LiteralOf(b)), 1, NewEvaluator).v

\* C17: `a is not b` evaluates to the Boolean negation of `a is b`: the
\* program `a is not b`, run from its text, returns true where `a is b` is
\* false and false where it is true.
C17_IsNot ==
    (/\ Len(parser.ts) = 4
     /\ parser.ts[2].type = "IS" /\ parser.ts[3].type = "NOT"
     /\ phase \in {"rejected", "returned"}) =>
        result = BoolV(~IsValue(parser.ts[1], parser.ts[4]).b)

(***************************************************************************)
(* The lexer (Lexer.NextToken and its helpers).  The input is a sequence   *)
(* of characters, each a one-character string; positions are Go's 0-based  *)
(* byte offsets; a literal is the sequence of its characters.  Field       *)
(* `start` of a token is ghost: the offset NextToken was at when it chose  *)
(* the token's kind.                                                       *)
(***************************************************************************)
\* the byte 0, which readChar and peekChar give at the end of the input
NUL == ""
Letters == {"a", "b", "c", "d", "e", "f", "g", "h", "i", "j", "k", "l", "m", "n", "o",
     "p", "q", "r", "s", "t", "u", "v", "w", "x", "y", "z", "A", "B", "C", "D", "E",
     "F", "G", "H", "I", "J", "K", "L", "M", "N", "O", "P", "Q", "R", "S", "T", "U",
     "V", "W", "X", "Y", "Z", "_"}
Digits == {"0", "1", "2", "3", "4", "5", "6", "7", "8", "9"}
isLetter(ch) == ch \in Letters
isDigit(ch) == ch \in Digits

\* NewLexer before its readChar
Lexer(input) ==
    [input |-> input, pos |-> 0, readPos |-> 0, ch |-> NUL, line |-> 1, column |-> 0]

readChar(l) ==
    [l EXCEPT !.ch = IF l.readPos >= Len(l.input) THEN NUL ELSE l.input[l.readPos + 1],
              !.pos = l.readPos, !.readPos = @ + 1, !.column = @ + 1]

peekChar(l) == IF l.readPos >= Len(l.input) THEN NUL ELSE l.input[l.readPos + 1]

NewLexer(input) == readChar(Lexer(input))

\* l.input[from:to]
Slice(input, from, to) == [i \in 1..(to - from) |-> input[from + i]]

RECURSIVE skipWhitespaceExceptNewline(_)
skipWhitespaceExceptNewline(l) ==
    IF l.ch \in {" ", "\t", "\r"} THEN skipWhitespaceExceptNewline(readChar(l)) ELSE l

RECURSIVE skipComment(_)
skipComment(l) == IF l.ch # "\n" /\ l.ch # NUL THEN skipComment(readChar(l)) ELSE l

\* the loops of readIdentifier, readNumber and readString
RECURSIVE whileIdentifier(_)
whileIdentifier(l) ==
    IF isLetter(l.ch) \/ isDigit(l.ch) THEN whileIdentifier(readChar(l)) ELSE l
RECURSIVE whileDigit(_)
whileDigit(l) == IF isDigit(l.ch) THEN whileDigit(readChar(l)) ELSE l
RECURSIVE whileString(_)
whileString(l) ==
    IF l.ch # "\"" /\ l.ch # NUL
    THEN whileString(readChar(IF l.ch = "\\" /\ peekChar(l) # NUL THEN readChar(l) ELSE l))
    ELSE l

\* readIdentifier, readNumber, readString: [lit, type, l]
readIdentifier(l) ==
    With(whileIdentifier(l), LAMBDA l1 :
        [lit |-> Slice(l.input, l.pos, l1.pos), type |-> "IDENT", l |-> l1])
readNumber(l) ==
    With(whileDigit(l), LAMBDA l1 :
        IF l1.ch = "." /\ isDigit(peekChar(l1))
        THEN With(whileDigit(readChar(l1)), LAMBDA l2 :
                 [lit |-> Slice(l.input, l.pos, l2.pos), type |-> "FLOAT", l |-> l2])
        ELSE [lit |-> Slice(l.input, l.pos, l1.pos), type |-> "INTEGER", l |-> l1])
readString(l) ==
    With(whileString(readChar(l)), LAMBDA l1 :
        [lit |-> Slice(l.input, l.pos + 1, l1.pos), type |-> "STRING", l |-> l1])

\* LookupIdent, on the keywords table
LookupIdent(ident) ==
    CASE ident = <<"d", "e", "f">> -> "DEF"
      [] ident = <<"f", "u", "n">> -> "FUN"
      [] ident = <<"s", "t", "r", "u", "c", "t">> -> "STRUCT"
      [] ident = <<"e", "x", "t", "e", "n", "d">> -> "EXTEND"
      [] ident = <<"i", "f">> -> "IF"
      [] ident = <<"e", "l", "s", "e">> -> "ELSE"
      [] ident = <<"w", "h", "i", "l", "e">> -> "WHILE"
      [] ident = <<"f", "o", "r">> -> "FOR"
      [] ident = <<"i", "n">> -> "IN"
      [] ident = <<"r", "e", "t", "u", "r", "n">> -> "RETURN"
      [] ident = <<"m", "a", "t", "c", "h">> -> "MATCH"
      [] ident = <<"S", "o", "m", "e">> -> "SOME"
      [] ident = <<"N", "o", "n", "e">> -> "NONE"
      [] ident = <<"O", "k">> -> "OK"
      [] ident = <<"E", "r", "r", "o", "r">> -> "ERROR"
      [] ident = <<"i", "m", "p", "o", "r", "t">> -> "IMPORT"
      [] ident = <<"a", "n", "d">> -> "AND"
      [] ident = <<"o", "r">> -> "OR"
      [] ident = <<"n", "o", "t">> -> "NOT"
      [] ident = <<"i", "s">> -> "IS"
      [] ident = <<"b", "r", "e", "a", "k">> -> "BREAK"
      [] ident = <<"c", "o", "n", "t", "i", "n", "u", "e">> -> "CONTINUE"
      [] ident = <<"M", "u", "t", "a", "b", "l", "e">> -> "MUTABLE"
      [] ident = <<"t", "r", "u", "e">> -> "TRUE"
      [] ident = <<"f", "a", "l", "s", "e">> -> "FALSE"
      [] OTHER -> "IDENT"

\* a Token with its Line and Column
TokenAt(type, lit, line, column, start) ==
    [type |-> type, lit |-> lit, line |-> line, column |-> column, start |-> start]

\* the tokens of one character, and of two when the second character follows
OneChar ==
    [c \in {"\n", "=", "+", "-", "*", "/", "%", ">", "<", "(", ")", "{", "}", "[", "]",
            ",", ":", "."} |->
        CASE c = "\n" -> "NEWLINE" [] c = "=" -> "ASSIGN" [] c = "+" -> "PLUS"
          [] c = "-" -> "MINUS" [] c = "*" -> "MULTIPLY" [] c = "/" -> "DIVIDE"
          [] c = "%" -> "MODULO" [] c = ">" -> "GT" [] c = "<" -> "LT"
          [] c = "(" -> "LPAREN" [] c = ")" -> "RPAREN" [] c = "{" -> "LBRACE"
          [] c = "}" -> "RBRACE" [] c = "[" -> "LBRACKET" [] c = "]" -> "RBRACKET"
          [] c = "," -> "COMMA" [] c = ":" -> "COLON" [] c = "." -> "DOT"]
TwoChars ==
    [c \in {"=", "-", ">", "<"} |->
        CASE c = "=" -> [next |-> "=", type |-> "ASSIGN_MUT"]
          [] c = "-" -> [next |-> ">", type |-> "ARROW"]
          [] c = ">" -> [next |-> "=", type |-> "GTE"]
          [] c = "<" -> [next |-> "=", type |-> "LTE"]]

\* NextToken: [tok, l]
RECURSIVE NextToken(_)
NextToken(l0) ==
    With(skipWhitespaceExceptNewline(l0), LAMBDA l :
        CASE l.ch = "/" /\ peekChar(l) = "/" -> NextToken(skipComment(l))
          [] l.ch = "\n" ->
                [tok |-> TokenAt("NEWLINE", <<l.ch>>, l.line, l.column, l.pos),
                 l |-> readChar([l EXCEPT !.line = @ + 1, !.column = 0])]
          [] l.ch \in DOMAIN TwoChars /\ peekChar(l) = TwoChars[l.ch].next ->
                [tok |-> TokenAt(TwoChars[l.ch].type, <<l.ch, TwoChars[l.ch].next>>,
                                 l.line, l.column, l.pos),
                 l |-> readChar(readChar(l))]
          [] l.ch = "\"" ->
                With(readString(l), LAMBDA r :
                    [tok |-> TokenAt("STRING", r.lit, l.line, l.column, l.pos),
                     l |-> readChar(r.l)])
          [] l.ch = NUL ->
                [tok |-> TokenAt("EOF", <<>>, l.line, l.column, l.pos), l |-> readChar(l)]
          [] isLetter(l.ch) ->
                With(readIdentifier(l), LAMBDA r :
                    [tok |-> TokenAt(LookupIdent(r.lit), r.lit, l.line, l.column, l.pos),
                     l |-> r.l])
          [] isDigit(l.ch) ->
                With(readNumber(l), LAMBDA r :
                    [tok |-> TokenAt(r.type, r.lit, l.line, l.column, l.pos), l |-> r.l])
          [] OTHER ->
                [tok |-> TokenAt(IF l.ch \in DOMAIN OneChar THEN OneChar[l.ch]
                                 ELSE "ILLEGAL",
                                 <<l.ch>>, l.line, l.column, l.pos),
                 l |-> readChar(l)])

\* the characters of the generated inputs
Chars == {"a", "1", " ", "\n", "\"", "/", "=", ">", "#"}
Inputs == {<<>>} \cup UNION {[1..n -> Chars] : n \in 1..MaxInput}

InitLex ==
    /\ lexer \in { [l |-> NewLexer(input), toks |-> <<>>, eofs |-> 0] : input \in Inputs }
    /\ program = Idle /\ pc = 0 /\ st = Idle /\ tc = Idle /\ result = Idle
    /\ phase = "lex"
    /\ err = Idle /\ hist = Idle /\ heap = Idle /\ made = Idle /\ binds = Idle
    /\ parser = Idle /\ call = Idle

\* a call of NextToken that returns a token other than EOF
NextTokenCall ==
    /\ phase = "lex"
    /\ \E r \in {NextToken(lexer.l)} :
           /\ r.tok.type # "EOF"
           /\ lexer' = [lexer EXCEPT !.l = r.l, !.toks = Append(@, r.tok)]
    /\ UNCHANGED <<call, program, pc, st, result, phase, err, hist, heap, made, binds, tc, parser>>

\* a call of NextToken that returns EOF
NextTokenEof ==
    /\ phase = "lex" /\ lexer.eofs < MaxEofCalls
    /\ \E r \in {NextToken(lexer.l)} :
           /\ r.tok.type = "EOF"
           /\ lexer' = [lexer EXCEPT !.l = r.l, !.toks = Append(@, r.tok), !.eofs = @ + 1]
    /\ UNCHANGED <<call, program, pc, st, result, phase, err, hist, heap, made, binds, tc, parser>>

NextLex == NextTokenCall \/ NextTokenEof

SpecLex == InitLex /\ [][NextLex]_vars

(***************************************************************************)
(* Calls of single functions of the runtime: a builtin, a map method, a    *)
(* helper of the checker.  call is the name of the function, its           *)
(* arguments and, once it has returned, its result.                        *)
(***************************************************************************)
Pending == [t |-> "pending"]
CallOf(fn, args) == [fn |-> fn, args |-> args, out |-> Pending]
Returned(fn) == call # Idle /\ call.fn = fn /\ call.out # Pending

\* arguments of range: integers around zero and values that are no integers
RangeValues ==
    {IntV(n) : n \in (-MaxInt)..MaxInt} \cup {StrV("a"), BoolV(TRUE), NullV}
RangeCalls ==
    {CallOf("range", args) : args \in {<<>>} \cup SeqsUpTo(RangeValues, MaxRangeArgs)}

\* the orders a Go `range` over a map with the keys S may take: the order is
\* not specified and changes from one run of the loop to the next
RangeOrders(S) ==
    { o \in [1..Cardinality(S) -> S] : \A i, j \in DOMAIN o : o[i] = o[j] => i = j }

\* mapKeys: the lists it may return
mapKeys(m) ==
    { ListV([i \in DOMAIN o |-> StrV(o[i])]) : o \in RangeOrders(DOMAIN m.pairs) }

\* mapValues: the lists it may return
mapValues(m) ==
    { ListV([i \in DOMAIN o |-> m.pairs[o[i]]]) : o \in RangeOrders(DOMAIN m.pairs) }

\* the keys of the generated maps, in the order of sort.Strings
MapKeyOrder == <<"age", "city", "name">>
MapKeys == {MapKeyOrder[i] : i \in DOMAIN MapKeyOrder}
Maps ==
    UNION { {MapV(pairs) : pairs \in [S -> {StrV("Alice"), StrV("Paris")}]} :
              S \in SUBSET MapKeys }
MapCalls == {CallOf(fn, <<m>>) : fn \in {"keys", "values"}, m \in Maps}

\* the types an annotation or an expression can produce, to two levels
BaseTypes ==
    { IntegerType, FloatType, StringType, BooleanType, NullType, AnyType,
      StructType("User", <<>>) }
TypesOver(S) ==
    S \cup {ListType(e) : e \in S} \cup {OptionType(e) : e \in S}
      \cup {MutableType(e) : e \in S} \cup {ResultType(e, StringType) : e \in S}
      \cup {MapType(StringType, e) : e \in S} \cup {FunctionType(<<e>>, e) : e \in S}
Types == TypesOver(TypesOver({IntegerType, AnyType})) \cup TypesOver(BaseTypes)

\* a Go bool, and the errors of a TypeChecker
GoBool(b) == [t |-> "bool", b |-> b]
Errors(errors) == [t |-> "errors", errors |-> errors]

AssignableCalls ==
    {CallOf("isAssignable", <<a, b>>) : a, b \in TypesOver(BaseTypes)}
        \cup {CallOf("isAssignable", <<a, a>>) : a \in Types}

\* `def x: <annotation> = <value>`
Annotations ==
    { Ann(n, <<>>) : n \in {"Integer", "String", "User"} }
        \cup { Ann(n, <<Ann("Integer", <<>>)>>) : n \in {"List", "Option", "Mutable"} }
        \cup { Ann("Mutable", <<Ann("Mutable", <<Ann("Integer", <<>>)>>)>>) }
AnnotatedValues ==
    { IntLit(1), StrLit("a"), ListLit(<<IntLit(1)>>), OptionE(TRUE, IntLit(1)),
      MutableE(IntLit(1)), MutableE(MutableE(IntLit(1))) }
DefCalls ==
    {CallOf("checkDefStatement", <<DefT("x", a, v)>>) : a \in Annotations, v \in AnnotatedValues}

\* programs with functions f and g of zero to two parameters, declared at
\* top level twice, inside a function's body and inside an if block, and
\* with methods m of User that share their name with each other or with a
\* function
ParamLists == {<<>>, <<"a">>, <<"a", "b">>}
FunNames == {"f", "g"}
CheckPrograms ==
    { <<Fun(n1, p1, <<>>), Fun(n2, p2, <<>>)>> :
        n1 \in {"f"}, n2 \in FunNames, p1 \in ParamLists, p2 \in ParamLists }
    \cup { <<Fun("f", p1, <<Fun(n2, p2, <<>>)>>)>> :
             n2 \in FunNames, p1 \in ParamLists, p2 \in ParamLists }
    \cup { <<Fun("f", p1, <<>>), ExprS(If(BoolLit(TRUE), <<Fun(n2, p2, <<>>)>>))>> :
             n2 \in FunNames, p1 \in ParamLists, p2 \in ParamLists }
    \cup { <<UserStruct, Extend("User", <<Fun("m", p1, <<>>), Fun("m", p2, <<>>)>>)>> :
             p1 \in ParamLists, p2 \in ParamLists }
    \cup { <<Fun("m", p1, <<>>), UserStruct, Extend("User", <<Fun("m", p2, <<>>)>>)>> :
             p1 \in ParamLists, p2 \in ParamLists }
CheckCalls == {CallOf("Check", <<prog>>) : prog \in CheckPrograms}

\* a Go error, and the nil error
GoError(message) == [t |-> "error", message |-> message]

InitCalls ==
    /\ call \in RangeCalls \cup MapCalls \cup AssignableCalls \cup DefCalls \cup CheckCalls
    /\ lexer = Idle /\ parser = Idle
    /\ program = Idle /\ pc = 0 /\ st = Idle /\ tc = Idle /\ result = Idle
    /\ phase = "call"
    /\ err = Idle /\ hist = Idle /\ heap = Idle /\ made = Idle /\ binds = Idle

\* range(args...)
BuiltinRangeCall ==
    /\ phase = "call" /\ call.fn = "range" /\ call.out = Pending
    /\ call' = [call EXCEPT !.out = builtinRange(call.args)]
    /\ UNCHANGED <<lexer, program, pc, st, result, phase, err, hist, heap, made, binds, tc,
                   parser>>

\* evalMapMethod: m.keys()
MapKeysCall ==
    /\ phase = "call" /\ call.fn = "keys" /\ call.out = Pending
    /\ \E out \in mapKeys(call.args[1]) : call' = [call EXCEPT !.out = out]
    /\ UNCHANGED <<lexer, program, pc, st, result, phase, err, hist, heap, made, binds, tc,
                   parser>>

\* evalMapMethod: m.values()
MapValuesCall ==
    /\ phase = "call" /\ call.fn = "values" /\ call.out = Pending
    /\ \E out \in mapValues(call.args[1]) : call' = [call EXCEPT !.out = out]
    /\ UNCHANGED <<lexer, program, pc, st, result, phase, err, hist, heap, made, binds, tc,
                   parser>>

\* tc.isAssignable(expected, actual)
IsAssignableCall ==
    /\ phase = "call" /\ call.fn = "isAssignable" /\ call.out = Pending
    /\ call' = [call EXCEPT !.out = GoBool(isAssignable(call.args[1], call.args[2]))]
    /\ UNCHANGED <<lexer, program, pc, st, result, phase, err, hist, heap, made, binds, tc,
                   parser>>

\* checkDefStatement(stmt) of a new TypeChecker: the errors it leaves
CheckDefCall ==
    /\ phase = "call" /\ call.fn = "checkDefStatement" /\ call.out = Pending
    /\ \E r \in {checkDefStatement(call.args[1], NewTypeChecker)} :
           call' = [call EXCEPT !.out = Errors(r.c.errors)]
    /\ UNCHANGED <<lexer, program, pc, st, result, phase, err, hist, heap, made, binds, tc,
                   parser>>

\* NewTypeChecker().Check(program)
CheckCall ==
    /\ phase = "call" /\ call.fn = "Check" /\ call.out = Pending
    /\ \E c \in {Check(call.args[1])} :
           call' = [call EXCEPT !.out = IF c.panic # "" THEN GoPanic(c.panic)
                                        ELSE IF c.errors # <<>> THEN GoError(c.errors[1])
                                        ELSE NilV]
    /\ UNCHANGED <<lexer, program, pc, st, result, phase, err, hist, heap, made, binds, tc,
                   parser>>

NextCalls ==
    \/ BuiltinRangeCall \/ MapKeysCall \/ MapValuesCall
    \/ IsAssignableCall \/ CheckDefCall \/ CheckCall

SpecCalls == InitCalls /\ [][NextCalls]_vars

(***************************************************************************)
(* Struct values.                                                          *)
(***************************************************************************)
Declared(v) == { st.structs[v.def].fields[j] : j \in DOMAIN st.structs[v.def].fields }

\* C18: every struct value made by a struct literal or by .with{...} in a
\* program that passed the type checker (tc holds the structs Check collected
\* and no error) has exactly the fields its definition declares
C18_ExactFields ==
    (tc.structs # <<>> /\ tc.errors = <<>>) =>
        \A i \in DOMAIN st.envs : \A n \in DOMAIN st.envs[i].store :
            LET v == UnwrapValue(st.envs[i].store[n], st)
            IN  v.t = "Struct" => DOMAIN v.fields = Declared(v)

(***************************************************************************)
(* def of an ErrorValue.                                                   *)
(***************************************************************************)
\* the statements of activation act: the program (activation 0), or the one
\* block of a program that is an if, a loop or a function with a call
StatementsOf(act) ==
    IF act = 0 THEN program
    ELSE CASE program[1].k = "ExpressionStatement" -> program[1].expr.cons.stmts
           [] program[1].k \in {"ForStatement", "FunctionStatement"} ->
                  program[1].body.stmts

\* the program is its body, or holds one block whose first statement is `def e`
IsDefProgram ==
    \/ (program # <<>> /\ program[1].k = "DefStatement" /\ program[1].name = "e")
    \/ /\ program # <<>>
       /\ \/ (program[1].k = "ExpressionStatement"
                /\ program[1].expr.k = "IfExpression"
                /\ program[1].expr.cond.k = "BooleanLiteral")
          \/ program[1].k = "ForStatement"
          \/ (program[1].k = "FunctionStatement" /\ program[1].name = "f")
       /\ StatementsOf(1) # <<>>
       /\ StatementsOf(1)[1].k = "DefStatement"
       /\ StatementsOf(1)[1].name = "e"

\* C19: a def whose value is an ErrorValue binds the name to it, and once the
\* run is over the statement after the def, at top level or in a block, has
\* been evaluated too
C19_DefGoesOn ==
    (phase = "returned" /\ IsDefProgram) =>
        \A j \in DOMAIN st.log :
            LET l == st.log[j]
            IN  (/\ l.kind = "stmt" /\ l.v.t = "Error"
                 /\ StatementsOf(l.act)[l.idx].k = "DefStatement") =>
                    /\ \E i \in DOMAIN st.envs :
                           /\ "e" \in DOMAIN st.envs[i].store
                           /\ st.envs[i].store["e"] = l.v
                    /\ l.idx < Len(StatementsOf(l.act)) =>
                           \E m \in DOMAIN st.log :
                               /\ m > j /\ st.log[m].kind = "stmt"
                               /\ st.log[m].act = l.act /\ st.log[m].idx = l.idx + 1

(***************************************************************************)
(* match.                                                                  *)
(***************************************************************************)
IsMatchProgram ==
    /\ Len(program) = 2
    /\ program[2].k = "ExpressionStatement"
    /\ program[2].expr.k = "MatchExpression"

\* the pattern matches the value
Matches(pat, v) ==
    CASE pat.k = "OptionExpression" -> v.t = "Option" /\ v.isSome = pat.isSome
      [] pat.k = "ResultExpression" -> v.t = "Result" /\ v.isOk = pat.isOk
      [] pat.k = "Identifier" -> TRUE
      [] OTHER -> FALSE

\* the first case whose pattern matches v, 0 when none does
FirstMatch(cases, v) ==
    IF \E i \in DOMAIN cases : Matches(cases[i].pattern, v)
    THEN CHOOSE i \in DOMAIN cases :
            /\ Matches(cases[i].pattern, v)
            /\ \A j \in 1..(i - 1) : ~Matches(cases[j].pattern, v)
    ELSE 0

\* what the pattern binds its name to: the inner value of Some, Ok and Error,
\* the whole value for a bare identifier
Inner(pat, v) ==
    CASE pat.k = "OptionExpression" -> v.val
      [] pat.k = "ResultExpression" ->
            IF v.isOk THEN v.val ELSE ErrV(v.err.method, v.err.input, v.err.message)
      [] pat.k = "Identifier" -> v

\* the match of a finished run evaluated the body of the first matching case
\* and no other, with the pattern's name bound
MatchedFirst ==
    LET cases == program[2].expr.cases
        v == st.envs[1].store["r"]
        i == FirstMatch(cases, v)
    IN  IF i = 0 THEN result = NullV /\ st.out = <<>>
        ELSE /\ st.out = << <<Tag(i)>> >>
             /\ result = IF BoundName(cases[i].pattern) # ""
                          THEN Inner(cases[i].pattern, v) ELSE IntV(i)

\* C20: a match evaluates the body of the first matching case only, Some(x),
\* Ok(x) and Error(x) bind x to the inner value, None matches an empty Option,
\* a bare identifier matches anything and binds the whole value, no match
\* gives Null; and the type checker accepts the program whatever the shape of
\* the pattern whose name the body uses
C20_Match ==
    IsMatchProgram =>
        /\ phase # "rejected"
        /\ phase = "returned" => MatchedFirst

(***************************************************************************)
(* Function application.                                                   *)
(***************************************************************************)
Min(a, b) == IF a < b THEN a ELSE b

\* f calls g, and f has a local x beside the global one
IsShadowProgram ==
    /\ Len(program) = 4
    /\ program[2].k = "FunctionStatement" /\ program[2].name = "g"
    /\ program[3].k = "FunctionStatement" /\ program[3].name = "f"

\* C21: the environment of every function application has the environment
\* the function captured as its parent, holds the i-th parameter bound to the
\* i-th argument for the parameters that have one and nothing else (surplus
\* arguments ignored, parameters without argument unbound); g called from f
\* reads the global x, not the x of its caller
C21_LexicalPositional ==
    /\ \A j \in DOMAIN st.frames :
           LET f == st.frames[j]
               n == Min(Len(f.fn.params), Len(f.args))
           IN  /\ f.parent = f.fn.env
               /\ DOMAIN f.store = { f.fn.params[i] : i \in 1..n }
               /\ \A i \in 1..n : f.store[f.fn.params[i]] = f.args[i]
    /\ (IsShadowProgram /\ phase = "returned") => result = IntV(1)

\* a closure made inside a call has been applied to more arguments than it
\* has parameters, and a function to fewer
C21_Witness ==
    /\ phase = "returned"
    /\ \E j \in DOMAIN st.frames :
           /\ st.frames[j].fn.env # 1
           /\ Len(st.frames[j].args) > Len(st.frames[j].fn.params)
    /\ \E j \in DOMAIN st.frames : Len(st.frames[j].args) < Len(st.frames[j].fn.params)

(***************************************************************************)
(* Operator precedence.                                                    *)
(***************************************************************************)
\* the precedence order of the binary operators, lowest first
PrecedenceOrder ==
    << {"ASSIGN_MUT"}, {"OR"}, {"AND"}, {"IS"}, {"GT", "LT", "GTE", "LTE"},
       {"PLUS", "MINUS"}, {"MULTIPLY", "DIVIDE", "MODULO"} >>
Level(tok) == CHOOSE i \in DOMAIN PrecedenceOrder : tok.type \in PrecedenceOrder[i]

\* the tree (l op r); an assignment to an identifier is an AssignmentExpression
Binary(op, l, r) ==
    IF op.type # "ASSIGN_MUT" THEN Infix(op.lit, l, r)
    ELSE IF l.k = "Identifier" THEN Assign(l.name, r)
    ELSE [k |-> "AssignmentExpression", target |-> l, value |-> r]

\* the text is `a p b q c`
IsTwoOperators ==
    /\ Len(parser.ts) = 5
    /\ parser.ts[1] = Token("IDENT", "a") /\ parser.ts[5] = Token("IDENT", "c")
\* the text is `- a q b` or `not a q b`
IsPrefixed ==
    /\ Len(parser.ts) = 4
    /\ parser.ts[1].type \in {"MINUS", "NOT"} /\ parser.ts[2] = Token("IDENT", "a")

\* the tree the precedence order gives the text: the operator of higher
\* precedence binds first, the left one when they are equal
Grouped ==
    IF IsTwoOperators
    THEN IF Level(parser.ts[4]) > Level(parser.ts[2])
         THEN Binary(parser.ts[2], Id("a"), Binary(parser.ts[4], Id("b"), Id("c")))
         ELSE Binary(parser.ts[4], Binary(parser.ts[2], Id("a"), Id("b")), Id("c"))
    ELSE Binary(parser.ts[3], Prefix(parser.ts[1].lit, Id("a")), Id("b"))

Parsed1(tree) == parser.errors = <<>> /\ parser.stmts = <<ExprS(tree)>>

RECURSIVE Skipped(_)
Skipped(text) ==
    IF text = <<>> THEN TRUE
    ELSE IF Head(text) \in {" ", "\t", "\r"} THEN Skipped(Tail(text))
    ELSE IF Len(text) >= 2 /\ text[1] = "/" /\ text[2] = "/"
         THEN \E n \in 2..Len(text) :
                 /\ \A i \in 3..n : text[i] # "\n"
                 /\ n < Len(text) => text[n + 1] = "\n"
                 /\ Skipped(SubSeq(text, n + 1, Len(text)))
    ELSE FALSE

\* the literals of toks[i..] and skipped text between them make up the input
\* from offset cursor on
RECURSIVE Rebuilds(_, _, _, _)
Rebuilds(input, toks, i, cursor) ==
    IF i > Len(toks) \/ toks[i].type = "EOF"
    THEN Skipped(Slice(input, cursor, Len(input)))
    ELSE \E at \in cursor..(Len(input) - Len(toks[i].lit)) :
            /\ Skipped(Slice(input, cursor, at))
            /\ Slice(input, at, at + Len(toks[i].lit)) = toks[i].lit
            /\ Rebuilds(input, toks, i + 1, at + Len(toks[i].lit))

\* NextToken has returned EOF
AtEof == lexer.toks # <<>> /\ lexer.toks[Len(lexer.toks)].type = "EOF"

\* C23: once NextToken has returned EOF, the literals of the tokens, in order
\* and with skipped spaces, tabs, carriage returns and // comments put back
\* between them, are the source text
C23_Reconstructs == AtEof => Rebuilds(lexer.l.input, lexer.toks, 1, 0)

\* the 1-based line and column of the character at 0-based offset off
LineOf(input, off) == 1 + Cardinality({ i \in 1..off : input[i] = "\n" })
ColumnOf(input, off) ==
    LET breaks == { i \in 1..off : input[i] = "\n" }
        last == IF breaks = {} THEN 0 ELSE CHOOSE i \in breaks : \A j \in breaks : j <= i
    IN  off + 1 - last

\* C24: every token that has a first character carries the line and the
\* column of that character
C24_Positions ==
    \A i \in DOMAIN lexer.toks :
        LET t == lexer.toks[i]
        IN  t.type # "EOF" =>
               /\ t.line = LineOf(lexer.l.input, t.start)
               /\ t.column = ColumnOf(lexer.l.input, t.start)

Integers(from, to) ==
    ListV([i \in 1..(IF to > from THEN to - from ELSE 0) |-> IntV(from + i - 1)])

\* C26: range(start, end) is the list of the integers from start up to end - 1,
\* empty when start >= end; range(end) is range(0, end); a wrong number of
\* arguments or an argument that is no integer gives an ErrorValue; and the
\* call always returns a value.
C26_Range ==
    Returned("range") =>
        LET args == call.args
            ints == \A i \in 1..Len(args) : args[i].t = "Integer"
        IN  /\ call.out.t # "panic"
            /\ (Len(args) \notin {1, 2} \/ ~ints) => call.out.t = "Error"
            /\ (Len(args) = 1 /\ ints) => call.out = Integers(0, args[1].n)
            /\ (Len(args) = 2 /\ ints) => call.out = Integers(args[1].n, args[2].n)

(***************************************************************************)
(* Map methods.                                                            *)
(***************************************************************************)
\* the keys of m in lexicographic order
SortedKeys(m) == SelectSeq(MapKeyOrder, LAMBDA k : k \in DOMAIN m.pairs)

\* C27: keys() is the list of the keys in lexicographic order and values()
\* the list of the values in the order of the sorted keys, so the lists are
\* a function of the map's contents.
C27_KeysValues ==
    /\ Returned("keys") =>
           call.out = ListV([i \in DOMAIN SortedKeys(call.args[1]) |->
                                StrV(SortedKeys(call.args[1])[i])])
    /\ Returned("values") =>
           call.out = ListV([i \in DOMAIN SortedKeys(call.args[1]) |->
                                call.args[1].pairs[SortedKeys(call.args[1])[i]]])

(***************************************************************************)
(* Assignability.                                                          *)
(***************************************************************************)
\* C29: every type is assignable to itself, and a def whose annotation is
\* the type inferred for its value leaves no error.
C29_Reflexive ==
    /\ (Returned("isAssignable") /\ call.args[1] = call.args[2]) => call.out = GoBool(TRUE)
    /\ Returned("checkDefStatement") =>
           (TypeFromAnnotation(call.args[1].typeHint)
                = checkExpression(call.args[1].value, NewTypeChecker).ty
            => call.out = Errors(<<>>))

(***************************************************************************)
(* Check as a function of the program.                                     *)
(***************************************************************************)
\* C28: Check returns nil or an error on every program, those that declare a
\* fun inside a function's body or a block and those in which functions or
\* extension methods share a name with different parameter counts included.
C28_CheckReturns == Returned("Check") => call.out.t \in {"nil", "error"}

(***************************************************************************)
(* Mutable cells.                                                          *)
(***************************************************************************)
\* C30: no Mutable cell holds a Mutable, so UnwrapValue of any value bound
\* in an environment is not a Mutable.
C30_NoNestedMutable ==
    st # Idle =>
        /\ \A i \in DOMAIN st.cells : st.cells[i].t # "Mutable"
        /\ \A e \in DOMAIN st.envs : \A n \in DOMAIN st.envs[e].store :
               UnwrapValue(st.envs[e].store[n], st).t # "Mutable"

\* the program has made Mutable(c) of the Mutable c, then a Mutable of a
\* Mutable and has assigned the Mutable d to c
C30_Witness ==
    /\ phase = "returned"
    /\ Len(program) = 4
    /\ program[2] = Def("d", MutableE(Id("c")))
    /\ program[3] = Def("e", MutableE(MutableE(IntLit(1))))
    /\ program[4] = ExprS(Assign("c", Id("d")))
    /\ Len(st.cells) = 4

====
